---- MODULE Spec2Model ----
(***************************************************************************)
(* Session engine of the Performance Checker service worker                *)
(* (service_worker.js): the session store, startMeasurement,               *)
(* stopMeasurement, the debugger/tab lifecycle listeners and the trace     *)
(* event handler, as one state machine.  The worker is single-threaded:    *)
(* every action below is one run-to-completion turn of the event loop,     *)
(* i.e. the code between two awaits, or one listener invocation.           *)
(***************************************************************************)
EXTENDS Integers, Sequences, FiniteSets, TLC

\* ---- bounds of the model ------------------------------------------------
NTabs == 1          \* tabs that exist at the beginning
NProcs == 2         \* START / STOP messages that can be in flight at once
MaxChunks == 1      \* trace fragments a session buffer can receive
MaxChunkLen == 1    \* longest JSON.stringify(params.value) of a fragment
MaxReqIds == 2      \* request identifiers the link reports
MaxRequests == 2    \* Network.requestWillBeSent events a session receives
MaxBytes == 1       \* largest encodedDataLength of a request
MaxTotalBytes == 2  \* cap of a session's transferredBytes
MaxCacheHits == 2   \* cap of a session's cacheHits
MaxFailures == 1    \* cap of a session's failures list
MaxTime == 0        \* latest clock reading (CDP timestamp, Date.now())
MaxFragments == 2   \* trace fragments of a buffer when one call runs alone
MaxFragLen == 2     \* longest fragment text when one call runs alone

Tabs == 1..NTabs
Procs == 1..NProcs
\* Session objects are heap objects: a start or stop call keeps a reference
\* to "its" session after the store dropped it.
Sids == 1..(NTabs + NProcs)
NoSession == 0

VARIABLES
  sessions,   \* the Map tabId -> session; NoSession when the key is absent
  heap,       \* session objects that are still referenced, by identity
  attached,   \* chrome.debugger: this extension is attached to the tab
  tracing,    \* browser side of the Tracing domain of the tab's link
  tabAlive,   \* the tab still exists
  tabStatus,  \* tab.status: "loading" or "complete"
  procs,      \* the in-flight handleMessage calls (START / STOP)
  popup,      \* the popup page: the report it holds and the insights built
  storage     \* chrome.storage.local, and the saveReport call in flight on it

vars == <<sessions, heap, attached, tracing, tabAlive, tabStatus, procs, popup, storage>>

\* ---- values -------------------------------------------------------------

\* null / undefined of a string-valued property.
NullStr == "null"

\* A number-valued property that is null / undefined, or holds v.
None == <<>>
Some(v) == <<v>>

\* domainOf(url): the hostname, or null when new URL(url) throws.
domainOf(url) ==
  CASE url \in {"https://a.com/", "https://a.com/1", "https://a.com/4",
                "https://a.com/7", "https://a.com/10"} -> "a.com"
    [] url \in {"https://b.net/", "https://b.net/2", "https://b.net/5",
                "https://b.net/8", "https://b.net/11"} -> "b.net"
    [] url \in {"https://example.com/app.js", "https://example.com/3",
                "https://example.com/6", "https://example.com/9",
                "https://example.com/12"} -> "example.com"
    [] OTHER -> NullStr

\* The address of the measured page: tab.url, "" for a tab that is gone.
TabUrl == "https://a.com/"

\* A Map (or an object used as one) is the sequence of its values in
\* insertion order.  Map.prototype.set with the place i of the key, 0 for a
\* new key: a new key is appended, an existing key keeps its place.
MapSet(map, i, value) ==
  IF i = 0 THEN Append(map, value) ELSE [map EXCEPT ![i] = value]

\* The place of a request id, of a domain and of a type in their maps, or 0.
PlaceOfRequest(map, id) ==
  IF \E i \in 1..Len(map) : map[i].id = id
  THEN CHOOSE i \in 1..Len(map) : map[i].id = id ELSE 0

PlaceOfDomain(map, domain) ==
  IF \E i \in 1..Len(map) : map[i].domain = domain
  THEN CHOOSE i \in 1..Len(map) : map[i].domain = domain ELSE 0

PlaceOfType(map, type) ==
  IF \E i \in 1..Len(map) : map[i].type = type
  THEN CHOOSE i \in 1..Len(map) : map[i].type = type ELSE 0

\* ---- session objects ----------------------------------------------------

\* createSession(tabId), followed by the two option assignments of
\* startMeasurement.
createSession(coldLoad, traceEnabled) ==
  [ coldLoad         |-> coldLoad,
    traceEnabled     |-> traceEnabled,
    requestsTotal    |-> 0,
    transferredBytes |-> 0,
    cacheHits        |-> 0,
    failures         |-> <<>>,
    domainMap        |-> <<>>,
    requestMap       |-> <<>>,
    traceChunks      |-> <<>>,
    traceSize        |-> 0 ]

\* getSession(tabId): the registered session, or null.
getSession(t) == sessions[t]

\* sessions.has(tabId)
HasSession(t) == sessions[t] # NoSession

\* ---- in-flight calls ----------------------------------------------------

NoTraceInfo == [captured |-> FALSE, sizeBytes |-> 0]

IdleProc ==
  [ op |-> "idle", tab |-> 0, pc |-> "idle", sid |-> NoSession,
    coldLoad |-> FALSE, traceEnabled |-> FALSE, lost |-> FALSE,
    result |-> "none", pageMetrics |-> "empty", traceInfo |-> NoTraceInfo,
    networkData |-> None, detaches |-> 0, removes |-> 0 ]

\* The popup page before a measurement has been reported to it.
ClosedPopup == [report |-> None, insights |-> None, lines |-> None]

\* The origins whose history is kept, the key of an origin in
\* chrome.storage.local, and the store before anything is saved (result[key]
\* is undefined for every key) with no saveReport in flight.
Origins == {"https://a.com", "https://b.net"}
KeyOf(origin) == <<"history:", origin>>
StorageKeys == {KeyOf(o) : o \in Origins}
EmptyStorage ==
  [ local |-> [k \in StorageKeys |-> None], saving |-> None, clock |-> 0,
    module |-> "popup.js" ]

\* Positions at which a call awaits the answer to a chrome.debugger.sendCommand.
CdpPcs == {"enable", "trace_start", "clear_cache", "page_enable",
           "page_reload", "trace_end"}

\* Session objects something still refers to; the rest is garbage.
Referenced(ss, ps) ==
  {ss[t] : t \in DOMAIN ss} \cup {ps[p].sid : p \in DOMAIN ps}

Collect(h, ss, ps) ==
  [s \in (DOMAIN h) \cap Referenced(ss, ps) |-> h[s]]

FreshSid == CHOOSE s \in Sids :
  /\ s \notin DOMAIN heap
  /\ \A r \in Sids : r \notin DOMAIN heap => s <= r

\* ---- the link -----------------------------------------------------------

\* chrome.debugger.detach, and any other loss of the link: commands that are
\* still awaiting their answer on that tab fail ("Detached while handling
\* command"), and the browser stops tracing.
LostBy(t) ==
  [q \in DOMAIN procs |->
     IF procs[q].tab = t /\ procs[q].pc \in CdpPcs
     THEN [procs[q] EXCEPT !.lost = TRUE] ELSE procs[q]]

Init ==
  /\ sessions = [t \in Tabs |-> NoSession]
  /\ heap = <<>>
  /\ attached = [t \in Tabs |-> FALSE]
  /\ tracing = [t \in Tabs |-> "off"]
  /\ tabAlive = [t \in Tabs |-> TRUE]
  /\ tabStatus = [t \in Tabs |-> "complete"]
  /\ procs = [p \in Procs |-> IdleProc]
  /\ popup = ClosedPopup
  /\ storage = EmptyStorage

\* ---- helpers of the calls -----------------------------------------------

\* cdpSend(tabId, ...) is issued: with no link the command fails at once
\* ("Debugger is not attached"); the answer is consumed by a later action.
Issue(rec, pc) == [rec EXCEPT !.pc = pc, !.lost = ~attached[rec.tab]]

\* A call reaches its end: the value or the error handleMessage will send.
\* Its locals are dead from here on, so is its reference to the session.
Finish(rec, result) ==
  [rec EXCEPT !.pc = "done", !.result = result, !.lost = FALSE,
              !.sid = NoSession, !.coldLoad = FALSE, !.traceEnabled = FALSE]

\* An awaited step that is not a debugger command (tab message, timer, ...).
Goto(rec, pc) == [rec EXCEPT !.pc = pc, !.lost = FALSE]

At(p, op, pc) == procs[p].op = op /\ procs[p].pc = pc

\* startMeasurement after the tracing block: the cold-load block, else the
\* content-script block.
AfterTracing(rec) ==
  IF rec.coldLoad THEN Issue(rec, "clear_cache") ELSE Goto(rec, "ping")

\* startMeasurement after Network.enable: the tracing block, else what follows.
AfterEnable(rec) ==
  IF rec.traceEnabled THEN Issue(rec, "trace_start") ELSE AfterTracing(rec)

\* ---- startMeasurement ---------------------------------------------------

\* startMeasurement without its already-active check.
StartCall_NoCheck(p, t, coldLoad, traceEnabled, ok) ==
  /\ procs[p].op = "idle"
  /\ tabAlive[t]
  /\ LET rec == [IdleProc EXCEPT !.op = "start", !.tab = t,
                                 !.coldLoad = coldLoad,
                                 !.traceEnabled = traceEnabled]
     IN IF ok /\ ~attached[t]
        THEN /\ procs' = [procs EXCEPT ![p] = Goto(rec, "attach_ok")]
             /\ attached' = [attached EXCEPT ![t] = TRUE]
        ELSE /\ procs' = [procs EXCEPT ![p] = Goto(rec, "attach_failed")]
             /\ UNCHANGED attached
  /\ UNCHANGED <<sessions, heap, tracing, tabAlive, tabStatus, popup, storage>>

\* handleMessage START up to the first await of startMeasurement: the
\* already-active check, then attachDebugger is issued.  The browser serves
\* the requests of the worker in the order they were issued, so the attach
\* takes effect here (ok), or is refused here: always when the extension is
\* attached to the tab already, and possibly for a reason of the browser
\* (another debugger, a page that cannot be debugged).
StartCall(p, t, coldLoad, traceEnabled, ok) ==
  /\ procs[p].op = "idle"
  /\ tabAlive[t]
  /\ LET rec == [IdleProc EXCEPT !.op = "start", !.tab = t,
                                 !.coldLoad = coldLoad,
                                 !.traceEnabled = traceEnabled]
     IN IF HasSession(t)
        THEN /\ procs' = [procs EXCEPT ![p] = Finish(rec, "AlreadyActive")]
             /\ UNCHANGED attached
        ELSE IF ok /\ ~attached[t]
        THEN /\ procs' = [procs EXCEPT ![p] = Goto(rec, "attach_ok")]
             /\ attached' = [attached EXCEPT ![t] = TRUE]
        ELSE /\ procs' = [procs EXCEPT ![p] = Goto(rec, "attach_failed")]
             /\ UNCHANGED attached
  /\ UNCHANGED <<sessions, heap, tracing, tabAlive, tabStatus, popup, storage>>

\* ---- handleMessage START ---------------------------------------------------

\* A URL is the sequence of its parts (scheme with "://", host, path
\* segments); String.prototype.startsWith compares the leading parts.
startsWith(url, prefix) ==
  /\ Len(prefix) <= Len(url)
  /\ SubSeq(url, 1, Len(prefix)) = prefix

\* The three prefixes of pages that cannot be measured.
ChromeScheme == <<"chrome://">>
ExtensionScheme == <<"chrome-extension://">>
WebStorePrefix == <<"https://", "chrome.google.com", "/webstore">>

IsProtected(url) ==
  \/ startsWith(url, ChromeScheme)
  \/ startsWith(url, ExtensionScheme)
  \/ startsWith(url, WebStorePrefix)

\* The URLs the active tab may show when START arrives.
ActiveUrls ==
  { <<"https://", "a.com", "/">>,
    <<"https://", "chrome.google.com", "/search">>,
    <<"https://", "chrome.google.com", "/webstore", "/detail">>,
    <<"chrome://", "settings">>,
    <<"chrome-extension://", "abcdef", "/popup.html">> }

\* What chrome.tabs.query gives: no tab, or the active tab.
ActiveTabs == {None} \cup {Some([id |-> t, url |-> u]) : t \in Tabs, u \in ActiveUrls}

\* handleMessage START that starts the measurement whatever the page is.
StartMessage_NoProtectedCheck(p, tab, coldLoad, traceEnabled, ok) ==
  IF tab = None
  THEN /\ procs[p].op = "idle"
       /\ procs' = [procs EXCEPT ![p] =
            Finish([IdleProc EXCEPT !.op = "start"], "NoActiveTab")]
       /\ UNCHANGED <<sessions, heap, attached, tracing, tabAlive, tabStatus, popup, storage>>
  ELSE StartCall(p, tab[1].id, coldLoad, traceEnabled, ok)

\* handleMessage START after chrome.tabs.query has answered: no active tab
\* and a protected page are refused, otherwise startMeasurement is called and
\* runs up to its first await.
StartMessage(p, tab, coldLoad, traceEnabled, ok) ==
  IF tab = None
  THEN /\ procs[p].op = "idle"
       /\ procs' = [procs EXCEPT ![p] =
            Finish([IdleProc EXCEPT !.op = "start"], "NoActiveTab")]
       /\ UNCHANGED <<sessions, heap, attached, tracing, tabAlive, tabStatus, popup, storage>>
  ELSE IF IsProtected(tab[1].url)
  THEN /\ procs[p].op = "idle"
       /\ procs' = [procs EXCEPT ![p] =
            Finish([IdleProc EXCEPT !.op = "start", !.tab = tab[1].id],
                   "Protected")]
       /\ UNCHANGED <<sessions, heap, attached, tracing, tabAlive, tabStatus, popup, storage>>
  ELSE StartCall(p, tab[1].id, coldLoad, traceEnabled, ok)

\* The attach callback reports lastError: the call throws, nothing else.
AttachFails(p) ==
  /\ At(p, "start", "attach_failed")
  /\ procs' = [procs EXCEPT ![p] = Finish(@, "AttachError")]
  /\ UNCHANGED <<sessions, heap, attached, tracing, tabAlive, tabStatus, popup, storage>>

\* The attach callback reports success: the session is created, its options
\* are set, it is put into the store and Network.enable is issued.
AttachSucceeds(p) ==
  /\ At(p, "start", "attach_ok")
  /\ LET t == procs[p].tab
         s == FreshSid
     IN /\ sessions' = [sessions EXCEPT ![t] = s]
        /\ procs' = [procs EXCEPT ![p] = [Issue(@, "enable") EXCEPT !.sid = s]]
        /\ heap' = Collect(
             heap @@ (s :> createSession(procs[p].coldLoad, procs[p].traceEnabled)),
             sessions', procs')
  /\ UNCHANGED <<attached, tracing, tabAlive, tabStatus, popup, storage>>

\* Network.enable succeeds.
EnableSucceeds(p) ==
  /\ At(p, "start", "enable")
  /\ ~procs[p].lost
  /\ procs' = [procs EXCEPT ![p] = AfterEnable(@)]
  /\ UNCHANGED <<sessions, heap, attached, tracing, tabAlive, tabStatus, popup, storage>>

\* Network.enable fails: the catch block issues detachDebugger and awaits it.
EnableFails(p) ==
  /\ At(p, "start", "enable")
  /\ LET t == procs[p].tab
     IN /\ attached' = [attached EXCEPT ![t] = FALSE]
        /\ tracing' = [tracing EXCEPT ![t] = "off"]
        /\ procs' = [LostBy(t) EXCEPT ![p] =
             [Goto(procs[p], "enable_detach") EXCEPT !.detaches = @ + 1]]
  /\ UNCHANGED <<sessions, heap, tabAlive, tabStatus, popup, storage>>

\* The catch block of Network.enable without its sessions.delete.
EnableFailed_KeepsSession(p) ==
  /\ At(p, "start", "enable_detach")
  /\ procs' = [procs EXCEPT ![p] = Finish(@, "ChannelEnableFailed")]
  /\ heap' = Collect(heap, sessions, procs')
  /\ UNCHANGED <<sessions, attached, tracing, tabAlive, tabStatus, popup, storage>>

\* ... the detach returned: sessions.delete(tabId), then the error is thrown.
EnableFailed(p) ==
  /\ At(p, "start", "enable_detach")
  /\ sessions' = [sessions EXCEPT ![procs[p].tab] = NoSession]
  /\ procs' = [procs EXCEPT ![p] =
       [Finish(@, "ChannelEnableFailed") EXCEPT !.removes = @ + 1]]
  /\ heap' = Collect(heap, sessions', procs')
  /\ UNCHANGED <<attached, tracing, tabAlive, tabStatus, popup, storage>>

\* Tracing.start succeeds.
TraceStartSucceeds(p) ==
  /\ At(p, "start", "trace_start")
  /\ ~procs[p].lost
  /\ tracing[procs[p].tab] = "off"
  /\ tracing' = [tracing EXCEPT ![procs[p].tab] = "on"]
  /\ procs' = [procs EXCEPT ![p] = AfterTracing(@)]
  /\ UNCHANGED <<sessions, heap, attached, tabAlive, tabStatus, popup, storage>>

\* Tracing.start outside a try block: its failure fails the start.
TraceStartFails_Fatal(p) ==
  /\ At(p, "start", "trace_start")
  /\ procs' = [procs EXCEPT ![p] = Finish(@, "TraceStartFailed")]
  /\ heap' = Collect(heap, sessions, procs')
  /\ UNCHANGED <<sessions, attached, tracing, tabAlive, tabStatus, popup, storage>>

\* Tracing.start fails and the catch block resets both options of the session.
TraceStartFails_ClearsOptions(p) ==
  /\ At(p, "start", "trace_start")
  /\ heap' = [heap EXCEPT ![procs[p].sid].traceEnabled = FALSE,
                          ![procs[p].sid].coldLoad = FALSE]
  /\ procs' = [procs EXCEPT ![p] = AfterTracing(@)]
  /\ UNCHANGED <<sessions, attached, tracing, tabAlive, tabStatus, popup, storage>>

\* Tracing.start fails: session.traceEnabled = false, and the start goes on.
TraceStartFails(p) ==
  /\ At(p, "start", "trace_start")
  /\ heap' = [heap EXCEPT ![procs[p].sid].traceEnabled = FALSE]
  /\ procs' = [procs EXCEPT ![p] = AfterTracing(@)]
  /\ UNCHANGED <<sessions, attached, tracing, tabAlive, tabStatus, popup, storage>>

\* Network.clearBrowserCache, Page.enable, Page.reload: each one succeeds ...
ColdStepSucceeds(p) ==
  /\ procs[p].op = "start"
  /\ procs[p].pc \in {"clear_cache", "page_enable", "page_reload"}
  /\ ~procs[p].lost
  /\ procs' = [procs EXCEPT ![p] =
       CASE @.pc = "clear_cache" -> Issue(@, "page_enable")
         [] @.pc = "page_enable" -> Issue(@, "page_reload")
         [] OTHER -> Goto(@, "ping")]
  /\ UNCHANGED <<sessions, heap, attached, tracing, tabAlive, tabStatus, popup, storage>>

\* ... or fails: the fallback chrome.tabs.reload is issued.
ColdStepFails(p) ==
  /\ procs[p].op = "start"
  /\ procs[p].pc \in {"clear_cache", "page_enable", "page_reload"}
  /\ procs' = [procs EXCEPT ![p] = Goto(@, "tabs_reload")]
  /\ UNCHANGED <<sessions, heap, attached, tracing, tabAlive, tabStatus, popup, storage>>

\* chrome.tabs.reload returns or throws; either way the start goes on.
TabsReloadReturns(p) ==
  /\ At(p, "start", "tabs_reload")
  /\ procs' = [procs EXCEPT ![p] = Goto(@, "ping")]
  /\ UNCHANGED <<sessions, heap, attached, tracing, tabAlive, tabStatus, popup, storage>>

\* ensureContentScript: the GET_METRICS ping is answered (ok) or not.
PingReturns(p, ok) ==
  /\ At(p, "start", "ping")
  /\ ok => tabAlive[procs[p].tab]
  /\ procs' = [procs EXCEPT ![p] =
       IF ok THEN Goto(@, "start_obs") ELSE Goto(@, "inject")]
  /\ UNCHANGED <<sessions, heap, attached, tracing, tabAlive, tabStatus, popup, storage>>

\* chrome.scripting.executeScript succeeds: START_OBSERVERS is sent ...
InjectSucceeds(p) ==
  /\ At(p, "start", "inject")
  /\ tabAlive[procs[p].tab]
  /\ procs' = [procs EXCEPT ![p] = Goto(@, "start_obs")]
  /\ UNCHANGED <<sessions, heap, attached, tracing, tabAlive, tabStatus, popup, storage>>

\* ... or throws: caught and logged, the start returns.
InjectFails(p) ==
  /\ At(p, "start", "inject")
  /\ procs' = [procs EXCEPT ![p] = Finish(@, "ok")]
  /\ heap' = Collect(heap, sessions, procs')
  /\ UNCHANGED <<sessions, attached, tracing, tabAlive, tabStatus, popup, storage>>

\* sendToTab(START_OBSERVERS) resolves (with a response or null).
StartObsReturns(p) ==
  /\ At(p, "start", "start_obs")
  /\ procs' = [procs EXCEPT ![p] = Finish(@, "ok")]
  /\ heap' = Collect(heap, sessions, procs')
  /\ UNCHANGED <<sessions, attached, tracing, tabAlive, tabStatus, popup, storage>>

\* ---- stopMeasurement ----------------------------------------------------

\* A sort that puts an element before the elements of the same key.
InsertDesc_BeforeEqual(sorted, x) ==
  LET n == Cardinality({i \in 1..Len(sorted) : sorted[i][1] > x[1]})
  IN SubSeq(sorted, 1, n) \o <<x>> \o SubSeq(sorted, n + 1, Len(sorted))

\* Array.prototype.sort with a comparator (a, b) => key(b) - key(a), on a
\* list of <<key, element>> pairs: stable, largest key first.
InsertDesc(sorted, x) ==
  LET n == Cardinality({i \in 1..Len(sorted) : sorted[i][1] >= x[1]})
  IN SubSeq(sorted, 1, n) \o <<x>> \o SubSeq(sorted, n + 1, Len(sorted))

SortDesc(pairs) ==
  LET f[i \in 0..Len(pairs)] ==
        IF i = 0 THEN <<>> ELSE InsertDesc(f[i - 1], pairs[i])
      sorted == f[Len(pairs)]
  IN [i \in 1..Len(sorted) |-> sorted[i][2]]

\* domainList.sort((a, b) => b.bytes - a.bytes)
SortByBytes(list) ==
  SortDesc([i \in 1..Len(list) |-> <<list[i].bytes, list[i]>>])

\* Array.prototype.slice(0, n)
Slice(seq, n) == SubSeq(seq, 1, IF Len(seq) < n THEN Len(seq) ELSE n)

SlowestCount == 10

\* String.prototype.toLowerCase on the resource types of the protocol.
toLowerCase(str) ==
  CASE str = "Script" -> "script"
    [] str = "Stylesheet" -> "stylesheet"
    [] str = "Image" -> "image"
    [] str = "Media" -> "media"
    [] str = "Font" -> "font"
    [] str = "XHR" -> "xhr"
    [] str = "Fetch" -> "fetch"
    [] str = "Document" -> "document"
    [] OTHER -> str

\* (mimeType || "").split(";")[0].trim().toLowerCase() on the MIME texts used.
MimeEssence(mime) ==
  CASE mime = NullStr -> ""
    [] mime = "Text/CSS; charset=utf-8" -> "text/css"
    [] OTHER -> mime

\* classifyResourceType(resourceType, mimeType)
classifyResourceType(resourceType, mimeType) ==
  LET rt == toLowerCase(resourceType)
      m == MimeEssence(mimeType)
      byMime ==
        IF m \in {"application/javascript", "text/javascript",
                  "application/ecmascript"} THEN "script"
        ELSE IF m = "text/css" THEN "css"
        ELSE IF m \in {"image/png", "video/mp4", "audio/mpeg"} THEN "img"
        ELSE IF m \in {"font/woff2", "application/font-woff",
                       "application/font-woff2", "application/x-font-opentype"}
             THEN "font"
        ELSE "other"
  IN IF resourceType = NullStr THEN byMime
     ELSE IF rt = "script" THEN "script"
     ELSE IF rt = "stylesheet" THEN "css"
     ELSE IF rt \in {"image", "media"} THEN "img"
     ELSE IF rt = "font" THEN "font"
     ELSE IF rt \in {"xhr", "fetch"} THEN "xhr/fetch"
     ELSE byMime

\* The durationMs of an entry of cdpRequests as a sort key; every entry has a
\* number, since the loop copies finished requests only.
DurationOf(r) == IF r.durationMs = None THEN 0 ELSE r.durationMs[1]

\* The loop over the requests skips none.
Skipped_None(req) == FALSE

\* "if (req.durationMs == null) continue": the request never finished.
Skipped(req) == req.durationMs = None

\* cdpRequests.sort((a, b) => b.durationMs - a.durationMs)
SortByDuration(list) ==
  SortDesc([i \in 1..Len(list) |-> <<DurationOf(list[i]), list[i]>>])

\* The quotient a / b of two counters, kept exact.
Ratio(a, b) == [num |-> a, den |-> b]

\* The network data stopMeasurement builds from its session object and the
\* page host.
BuildNetworkData(session, pageHost) ==
  LET domainList ==
        [i \in 1..Len(session.domainMap) |->
           [ domain |-> session.domainMap[i].domain,
             requests |-> session.domainMap[i].requests,
             bytes |-> session.domainMap[i].bytes,
             thirdParty |-> IF pageHost # NullStr
                            THEN session.domainMap[i].domain # pageHost
                            ELSE FALSE ]]
      cacheHitRate ==
        IF session.requestsTotal > 0
        THEN Some(Ratio(session.cacheHits, session.requestsTotal))
        ELSE None
      n == Len(session.requestMap)
      \* the loop over requestMap.values(): <<byTypeMap, cdpRequests>> after
      \* the first i requests
      loop[i \in 0..n] ==
        IF i = 0 THEN <<(<<>>), (<<>>)>>
        ELSE LET req == session.requestMap[i]
                 byTypeMap == loop[i - 1][1]
                 cdpRequests == loop[i - 1][2]
             IN IF Skipped(req) THEN loop[i - 1]
                ELSE LET type == classifyResourceType(req.resourceType, req.mimeType)
                         k == PlaceOfType(byTypeMap, type)
                         b == IF k # 0 THEN byTypeMap[k]
                              ELSE [type |-> type, requests |-> 0, bytes |-> 0]
                         transferBytes == IF req.transferBytes = None THEN 0
                                          ELSE req.transferBytes[1]
                     IN << MapSet(byTypeMap, k,
                             [b EXCEPT !.requests = @ + 1,
                                       !.bytes = @ + transferBytes]),
                           Append(cdpRequests,
                             [ url |-> req.url, domain |-> req.domain,
                               type |-> type, durationMs |-> req.durationMs,
                               transferBytes |-> transferBytes,
                               status |-> req.status,
                               fromCache |-> IF req.fromCache = None THEN FALSE
                                             ELSE req.fromCache[1] ]) >>
  IN [ requestsTotal |-> session.requestsTotal,
       transferredBytes |-> session.transferredBytes,
       cacheHitRate |-> cacheHitRate,
       failures |-> session.failures,
       byDomain |-> SortByBytes(domainList),
       byType |-> loop[n][1],
       slowest |-> Slice(SortByDuration(loop[n][2]), SlowestCount) ]

\* The trace info taken from the size accumulator alone.
BuildTraceInfo_FromSize(session) ==
  [captured |-> TRUE, sizeBytes |-> session.traceSize]

\* The trace info stopMeasurement builds from its session object.
BuildTraceInfo(session) ==
  IF Len(session.traceChunks) > 0
  THEN [captured |-> TRUE, sizeBytes |-> session.traceSize]
  ELSE NoTraceInfo

\* stopMeasurement with its no-session check inside the try block: the
\* finally block detaches before the error leaves.
StopCall_ChecksInsideTry(p, t) ==
  /\ procs[p].op = "idle"
  /\ LET rec == [IdleProc EXCEPT !.op = "stop", !.tab = t]
     IN IF getSession(t) = NoSession
        THEN /\ attached' = [attached EXCEPT ![t] = FALSE]
             /\ tracing' = [tracing EXCEPT ![t] = "off"]
             /\ procs' = [LostBy(t) EXCEPT ![p] =
                  [Finish(rec, "NoActiveSession") EXCEPT !.detaches = 1]]
        ELSE /\ procs' = [procs EXCEPT ![p] =
                  [Goto(rec, "get_metrics") EXCEPT !.sid = getSession(t)]]
             /\ UNCHANGED <<attached, tracing>>
  /\ UNCHANGED <<sessions, heap, tabAlive, tabStatus, popup, storage>>

\* handleMessage STOP up to the first await of stopMeasurement: the
\* no-session check, then GET_METRICS is sent to the tab.
StopCall(p, t) ==
  /\ procs[p].op = "idle"
  /\ LET rec == [IdleProc EXCEPT !.op = "stop", !.tab = t]
     IN procs' = [procs EXCEPT ![p] =
          IF getSession(t) = NoSession THEN Finish(rec, "NoActiveSession")
          ELSE [Goto(rec, "get_metrics") EXCEPT !.sid = getSession(t)]]
  /\ UNCHANGED <<sessions, heap, attached, tracing, tabAlive, tabStatus, popup, storage>>

\* sendToTab(GET_METRICS) resolves: with metrics (ok) or with null / not ok,
\* in which case pageMetrics stays {}.  STOP_OBSERVERS is sent.
GetMetricsReturns(p, ok) ==
  /\ At(p, "stop", "get_metrics")
  /\ ok => tabAlive[procs[p].tab]
  /\ procs' = [procs EXCEPT ![p] =
       [Goto(@, "stop_obs") EXCEPT !.pageMetrics = IF ok THEN "metrics" ELSE "empty"]]
  /\ UNCHANGED <<sessions, heap, attached, tracing, tabAlive, tabStatus, popup, storage>>

\* The finally block begins: the trace info is what the try block built, and
\* detachDebugger is issued and awaited.
Teardown(p, rec) ==
  LET t == rec.tab
  IN /\ attached' = [attached EXCEPT ![t] = FALSE]
     /\ tracing' = [tracing EXCEPT ![t] = "off"]
     /\ procs' = [LostBy(t) EXCEPT ![p] =
          [Goto(rec, "detach") EXCEPT
             !.traceInfo = BuildTraceInfo(heap[rec.sid]),
             !.detaches = @ + 1]]

\* sendToTab(STOP_OBSERVERS) resolves: Tracing.end is issued when the session
\* traces and has no fragment yet, otherwise the teardown begins.
StopObsReturns(p) ==
  /\ At(p, "stop", "stop_obs")
  /\ LET session == heap[procs[p].sid]
     IN IF session.traceEnabled /\ Len(session.traceChunks) = 0
        THEN /\ procs' = [procs EXCEPT ![p] = Issue(@, "trace_end")]
             /\ UNCHANGED <<attached, tracing>>
        ELSE Teardown(p, procs[p])
  /\ UNCHANGED <<sessions, heap, tabAlive, tabStatus, popup, storage>>

\* Tracing.end succeeds: the 500 ms timer is awaited.
TraceEndSucceeds(p) ==
  /\ At(p, "stop", "trace_end")
  /\ ~procs[p].lost
  /\ tracing[procs[p].tab] = "on"
  /\ tracing' = [tracing EXCEPT ![procs[p].tab] = "ending"]
  /\ procs' = [procs EXCEPT ![p] = Goto(@, "grace")]
  /\ UNCHANGED <<sessions, heap, attached, tabAlive, tabStatus, popup, storage>>

\* Tracing.end fails: caught, the teardown begins.
TraceEndFails(p) ==
  /\ At(p, "stop", "trace_end")
  /\ Teardown(p, procs[p])
  /\ UNCHANGED <<sessions, heap, tabAlive, tabStatus, popup, storage>>

\* The wait after Tracing.end ends only when a fragment has arrived.
GraceElapsed_WaitsForFragment(p) ==
  /\ At(p, "stop", "grace")
  /\ heap[procs[p].sid].traceChunks # <<>>
  /\ Teardown(p, procs[p])
  /\ UNCHANGED <<sessions, heap, tabAlive, tabStatus, popup, storage>>

\* The grace timer fires: the teardown begins.
GraceElapsed(p) ==
  /\ At(p, "stop", "grace")
  /\ Teardown(p, procs[p])
  /\ UNCHANGED <<sessions, heap, tabAlive, tabStatus, popup, storage>>

\* The detach of the finally block returned: sessions.delete(tabId); getTab
\* is awaited for the network data.
StopDetached(p) ==
  /\ At(p, "stop", "detach")
  /\ sessions' = [sessions EXCEPT ![procs[p].tab] = NoSession]
  /\ procs' = [procs EXCEPT ![p] = [Goto(@, "get_tab") EXCEPT !.removes = @ + 1]]
  /\ heap' = Collect(heap, sessions', procs')
  /\ UNCHANGED <<attached, tracing, tabAlive, tabStatus, popup, storage>>

\* getTab on the promise API of chrome.tabs.get: it rejects for a closed tab.
GetTabReturns_Rejects(p) ==
  /\ At(p, "stop", "get_tab")
  /\ procs' = [procs EXCEPT ![p] =
       Finish(@, IF tabAlive[procs[p].tab] THEN "ok" ELSE "NoTab")]
  /\ heap' = Collect(heap, sessions, procs')
  /\ UNCHANGED <<sessions, attached, tracing, tabAlive, tabStatus, popup, storage>>

\* getTab resolved (with the tab or null): the network data is built and
\* {pageMetrics, networkData, traceInfo} is returned.
GetTabReturns(p) ==
  /\ At(p, "stop", "get_tab")
  /\ LET pageHost == domainOf(IF tabAlive[procs[p].tab] THEN TabUrl ELSE "")
     IN procs' = [procs EXCEPT ![p] =
          [Finish(@, "ok") EXCEPT
             !.networkData = Some(BuildNetworkData(heap[procs[p].sid], pageHost))]]
  /\ heap' = Collect(heap, sessions, procs')
  /\ UNCHANGED <<sessions, attached, tracing, tabAlive, tabStatus, popup, storage>>

\* handleMessage: sendResponse with the result or the error of the call.
Return(p) ==
  /\ procs[p].pc = "done"
  /\ procs' = [procs EXCEPT ![p] = IdleProc]
  /\ UNCHANGED <<sessions, heap, attached, tracing, tabAlive, tabStatus, popup, storage>>

\* handleMessage GET_STATUS for a tab.
Status(t) == HasSession(t)

\* ---- listeners ----------------------------------------------------------

\* chrome.debugger.onEvent, Tracing.dataCollected with a fragment whose JSON
\* text has len characters.
TraceDataApplied_Unguarded(session, len) ==
  [session EXCEPT !.traceChunks = Append(@, len), !.traceSize = @ + len]

TraceDataApplied(session, len) ==
  IF session.traceEnabled
  THEN [session EXCEPT !.traceChunks = Append(@, len), !.traceSize = @ + len]
  ELSE session

\* The listener with a lookup that creates the session it does not find.
TraceData_CreatesSession(t, len) ==
  /\ tracing[t] # "off"
  /\ IF HasSession(t)
     THEN /\ Len(heap[getSession(t)].traceChunks) < MaxChunks
          /\ heap' = [heap EXCEPT ![getSession(t)] = TraceDataApplied(@, len)]
          /\ UNCHANGED sessions
     ELSE /\ sessions' = [sessions EXCEPT ![t] = FreshSid]
          /\ heap' = (FreshSid :> TraceDataApplied(createSession(FALSE, TRUE), len))
                       @@ heap
  /\ UNCHANGED <<attached, tracing, tabAlive, tabStatus, procs, popup, storage>>

\* The link of tab t delivers a fragment: the listener looks the session up
\* by the tab of the event and returns when there is none.  A buffer takes at
\* most max fragments.
DataCollected(t, len, max) ==
  /\ attached[t]
  /\ IF HasSession(t)
     THEN /\ Len(heap[getSession(t)].traceChunks) < max
          /\ heap' = [heap EXCEPT ![getSession(t)] = TraceDataApplied(@, len)]
     ELSE UNCHANGED heap
  /\ UNCHANGED <<sessions, attached, tracing, tabAlive, tabStatus, procs, popup, storage>>

\* A fragment of the trace the browser is recording on the tab's link.
TraceData(t, len) ==
  /\ tracing[t] # "off"
  /\ DataCollected(t, len, MaxChunks)

\* chrome.debugger.onEvent, Tracing.tracingComplete: nothing to do.
TracingComplete(t) ==
  /\ tracing[t] = "ending"
  /\ tracing' = [tracing EXCEPT ![t] = "off"]
  /\ UNCHANGED <<sessions, heap, attached, tabAlive, tabStatus, procs, popup, storage>>

\* The onDetach listener clearing the whole store.
OnDetach_ClearsStore(t) ==
  /\ attached[t]
  /\ attached' = [attached EXCEPT ![t] = FALSE]
  /\ tracing' = [tracing EXCEPT ![t] = "off"]
  /\ procs' = LostBy(t)
  /\ sessions' = [u \in DOMAIN sessions |-> NoSession]
  /\ heap' = Collect(heap, sessions', procs')
  /\ UNCHANGED <<tabAlive, tabStatus, popup, storage>>

\* The link is detached from outside (the user cancels the debugging bar,
\* DevTools takes over); chrome.debugger.onDetach: sessions.delete.
OnDetach(t) ==
  /\ attached[t]
  /\ attached' = [attached EXCEPT ![t] = FALSE]
  /\ tracing' = [tracing EXCEPT ![t] = "off"]
  /\ procs' = LostBy(t)
  /\ sessions' = [sessions EXCEPT ![t] = NoSession]
  /\ heap' = Collect(heap, sessions', procs')
  /\ UNCHANGED <<tabAlive, tabStatus, popup, storage>>

\* The tab is closed: the browser drops the link (onDetach) and
\* chrome.tabs.onRemoved detaches and deletes a registered session.
OnRemoved(t) ==
  /\ tabAlive[t]
  /\ tabAlive' = [tabAlive EXCEPT ![t] = FALSE]
  /\ attached' = [attached EXCEPT ![t] = FALSE]
  /\ tracing' = [tracing EXCEPT ![t] = "off"]
  /\ procs' = LostBy(t)
  /\ sessions' = [sessions EXCEPT ![t] =
       IF HasSession(t) \/ attached[t] THEN NoSession ELSE @]
  /\ heap' = Collect(heap, sessions', procs')
  /\ UNCHANGED <<tabStatus, popup, storage>>

\* The onUpdated listener without its detachDebugger call.
OnUpdated_KeepsLink(t) ==
  /\ tabAlive[t]
  /\ tabStatus' = [tabStatus EXCEPT ![t] = "loading"]
  /\ IF HasSession(t) /\ ~heap[getSession(t)].coldLoad
     THEN /\ sessions' = [sessions EXCEPT ![t] = NoSession]
          /\ heap' = Collect(heap, sessions', procs)
          /\ UNCHANGED <<attached, tracing, procs>>
     ELSE UNCHANGED <<sessions, heap, attached, tracing, procs>>
  /\ UNCHANGED <<tabAlive, popup, storage>>

\* The onUpdated listener without its coldLoad test.
OnUpdated_IgnoresColdLoad(t) ==
  /\ tabAlive[t]
  /\ tabStatus' = [tabStatus EXCEPT ![t] = "loading"]
  /\ IF HasSession(t)
     THEN /\ attached' = [attached EXCEPT ![t] = FALSE]
          /\ tracing' = [tracing EXCEPT ![t] = "off"]
          /\ procs' = LostBy(t)
          /\ sessions' = [sessions EXCEPT ![t] = NoSession]
          /\ heap' = Collect(heap, sessions', procs')
     ELSE UNCHANGED <<sessions, heap, attached, tracing, procs>>
  /\ UNCHANGED <<tabAlive, popup, storage>>

\* chrome.tabs.onUpdated with status "loading": a registered session that was
\* not started as a cold load is detached and deleted.
OnUpdated(t) ==
  /\ tabAlive[t]
  /\ tabStatus' = [tabStatus EXCEPT ![t] = "loading"]
  /\ IF HasSession(t) /\ ~heap[getSession(t)].coldLoad
     THEN /\ attached' = [attached EXCEPT ![t] = FALSE]
          /\ tracing' = [tracing EXCEPT ![t] = "off"]
          /\ procs' = LostBy(t)
          /\ sessions' = [sessions EXCEPT ![t] = NoSession]
          /\ heap' = Collect(heap, sessions', procs')
     ELSE UNCHANGED <<sessions, heap, attached, tracing, procs>>
  /\ UNCHANGED <<tabAlive, popup, storage>>

\* chrome.tabs.onUpdated with status "complete": the listener ignores it.
OnComplete(t) ==
  /\ tabAlive[t]
  /\ tabStatus[t] = "loading"
  /\ tabStatus' = [tabStatus EXCEPT ![t] = "complete"]
  /\ UNCHANGED <<sessions, heap, attached, tracing, tabAlive, procs, popup, storage>>

\* ---- network events -----------------------------------------------------

Urls == {"https://a.com/", "https://b.net/"}
ReqIds == 1..MaxReqIds
Times == 0..MaxTime
ByteCounts == 0..MaxBytes

\* requestMap.has(id) and requestMap.get(id); the Map keeps insertion order.
HasRequest(session, id) == PlaceOfRequest(session.requestMap, id) # 0

RequestIndex(session, id) == PlaceOfRequest(session.requestMap, id)

\* A handler that counts a repeated id and keeps its earlier record.
OnRequestWillBeSent_KeepsFirst(session, id, url, rtype, ts, now) ==
  [session EXCEPT
     !.requestsTotal = @ + 1,
     !.requestMap =
        IF PlaceOfRequest(@, id) # 0 THEN @
        ELSE Append(@,
          [ id |-> id, url |-> url, domain |-> domainOf(url),
            type |-> "other", resourceType |-> rtype,
            startMs |-> now, startTimestamp |-> ts,
            fromCache |-> None, mimeType |-> NullStr, status |-> None,
            transferBytes |-> None, durationMs |-> None ])]

\* Network.requestWillBeSent
OnRequestWillBeSent(session, id, url, rtype, ts, now) ==
  [session EXCEPT
     !.requestsTotal = @ + 1,
     !.requestMap = MapSet(@, PlaceOfRequest(@, id),
        [ id |-> id, url |-> url, domain |-> domainOf(url),
          type |-> "other", resourceType |-> rtype,
          startMs |-> now, startTimestamp |-> ts,
          fromCache |-> None, mimeType |-> NullStr, status |-> None,
          transferBytes |-> None, durationMs |-> None ])]

\* Network.responseReceived; cached is fromDiskCache || fromPrefetchCache ||
\* fromServiceWorker, mime is response.mimeType ?? "".
OnResponseReceived(session, id, cached, mime, status) ==
  IF HasRequest(session, id)
  THEN [session EXCEPT
          !.cacheHits = IF cached THEN @ + 1 ELSE @,
          !.requestMap[RequestIndex(session, id)] =
             [@ EXCEPT !.fromCache = Some(cached), !.mimeType = mime,
                       !.status = Some(status)]]
  ELSE session

\* A handler that adds the bytes of a repeated finished event to the session
\* total and not to the rollup of the domain.
OnLoadingFinished_RollupOnce(session, id, bytes, ts, now) ==
  IF HasRequest(session, id)
  THEN LET i == RequestIndex(session, id)
           req == session.requestMap[i]
           domain == IF req.domain = NullStr THEN "unknown" ELSE req.domain
           k == PlaceOfDomain(session.domainMap, domain)
           d == IF k # 0 THEN session.domainMap[k]
                ELSE [domain |-> domain, requests |-> 0, bytes |-> 0]
       IN [session EXCEPT
             !.transferredBytes = @ + bytes,
             !.domainMap = IF req.transferBytes # None THEN @
                           ELSE MapSet(@, k,
                             [d EXCEPT !.requests = @ + 1, !.bytes = @ + bytes]),
             !.requestMap[i] = [@ EXCEPT !.transferBytes = Some(bytes),
                                         !.durationMs = Some(now - req.startMs)]]
  ELSE session

\* Network.loadingFinished; bytes is encodedDataLength || 0.
OnLoadingFinished(session, id, bytes, ts, now) ==
  IF HasRequest(session, id)
  THEN LET i == RequestIndex(session, id)
           req == session.requestMap[i]
           domain == IF req.domain = NullStr THEN "unknown" ELSE req.domain
           k == PlaceOfDomain(session.domainMap, domain)
           d == IF k # 0 THEN session.domainMap[k]
                ELSE [domain |-> domain, requests |-> 0, bytes |-> 0]
           durationMs == IF ts # None /\ req.startTimestamp # None
                         THEN (ts[1] - req.startTimestamp[1]) * 1000
                         ELSE now - req.startMs
       IN [session EXCEPT
             !.transferredBytes = @ + bytes,
             !.domainMap = MapSet(@, k,
                [d EXCEPT !.requests = @ + 1, !.bytes = @ + bytes]),
             !.requestMap[i] = [@ EXCEPT !.transferBytes = Some(bytes),
                                         !.durationMs = Some(durationMs)]]
  ELSE session

\* Network.loadingFailed without the test of the looked-up request.
OnLoadingFailed_Unguarded(session, id, errorText, type) ==
  [session EXCEPT !.failures = Append(@,
     [ url |-> IF HasRequest(session, id)
               THEN session.requestMap[RequestIndex(session, id)].url ELSE NullStr,
       errorText |-> IF errorText = NullStr THEN "unknown" ELSE errorText,
       type |-> IF type # NullStr THEN type ELSE "other" ])]

\* Network.loadingFailed; errorText and type as the event carries them.
OnLoadingFailed(session, id, errorText, type) ==
  IF HasRequest(session, id)
  THEN LET req == session.requestMap[RequestIndex(session, id)]
       IN [session EXCEPT !.failures = Append(@,
             [ url |-> req.url,
               errorText |-> IF errorText = NullStr THEN "unknown" ELSE errorText,
               type |-> IF type # NullStr THEN type ELSE req.type ])]
  ELSE session

\* chrome.debugger.onEvent delivers one event of the tab's link: the listener
\* returns at once when the tab has no session, else the handler of the
\* event's method updates the session in place.
Deliver(t, updated) ==
  /\ attached[t]
  /\ IF HasSession(t)
     THEN heap' = [heap EXCEPT ![getSession(t)] = updated]
     ELSE UNCHANGED heap
  /\ UNCHANGED <<sessions, attached, tracing, tabAlive, tabStatus, procs, popup, storage>>

\* The session an event of tab t is applied to (any value when there is none).
Target(t) == IF HasSession(t) THEN heap[getSession(t)] ELSE createSession(FALSE, FALSE)

RequestWillBeSent(t, id, url, rtype, ts, now) ==
  /\ Target(t).requestsTotal < MaxRequests
  /\ Deliver(t, OnRequestWillBeSent(Target(t), id, url, rtype, ts, now))

ResponseReceived(t, id, cached, mime, status) ==
  /\ Target(t).cacheHits < MaxCacheHits
  /\ Deliver(t, OnResponseReceived(Target(t), id, cached, mime, status))

LoadingFinished(t, id, bytes, ts, now) ==
  /\ Target(t).transferredBytes + bytes <= MaxTotalBytes
  /\ \A i \in 1..Len(Target(t).domainMap) : Target(t).domainMap[i].requests < MaxRequests
  /\ Deliver(t, OnLoadingFinished(Target(t), id, bytes, ts, now))

LoadingFailed(t, id, errorText, type) ==
  /\ Len(Target(t).failures) < MaxFailures
  /\ Deliver(t, OnLoadingFailed(Target(t), id, errorText, type))

\* ---- the system ---------------------------------------------------------

Next ==
  \/ \E p \in Procs, t \in Tabs, c \in BOOLEAN, tr \in BOOLEAN, ok \in BOOLEAN :
       StartCall(p, t, c, tr, ok)
  \/ \E p \in Procs : AttachFails(p)
  \/ \E p \in Procs : AttachSucceeds(p)
  \/ \E p \in Procs : EnableSucceeds(p)
  \/ \E p \in Procs : EnableFails(p)
  \/ \E p \in Procs : EnableFailed(p)
  \/ \E p \in Procs : TraceStartSucceeds(p)
  \/ \E p \in Procs : TraceStartFails(p)
  \/ \E p \in Procs : ColdStepSucceeds(p)
  \/ \E p \in Procs : ColdStepFails(p)
  \/ \E p \in Procs : TabsReloadReturns(p)
  \/ \E p \in Procs, ok \in BOOLEAN : PingReturns(p, ok)
  \/ \E p \in Procs : InjectSucceeds(p)
  \/ \E p \in Procs : InjectFails(p)
  \/ \E p \in Procs : StartObsReturns(p)
  \/ \E p \in Procs, t \in Tabs : StopCall(p, t)
  \/ \E p \in Procs, ok \in BOOLEAN : GetMetricsReturns(p, ok)
  \/ \E p \in Procs : StopObsReturns(p)
  \/ \E p \in Procs : TraceEndSucceeds(p)
  \/ \E p \in Procs : TraceEndFails(p)
  \/ \E p \in Procs : GraceElapsed(p)
  \/ \E p \in Procs : StopDetached(p)
  \/ \E p \in Procs : GetTabReturns(p)
  \/ \E p \in Procs : Return(p)
  \/ \E t \in Tabs, len \in 1..MaxChunkLen : TraceData(t, len)
  \/ \E t \in Tabs : TracingComplete(t)
  \/ \E t \in Tabs : OnDetach(t)
  \/ \E t \in Tabs : OnRemoved(t)
  \/ \E t \in Tabs : OnUpdated(t)
  \/ \E t \in Tabs : OnComplete(t)

Spec == Init /\ [][Next]_vars

\* ---- the network aggregator of one measurement --------------------------

ResourceTypes == {NullStr}
MimeTypes == {"text/css"}
Statuses == {200}
TimeStamps == {None} \cup {Some(n) : n \in Times}
ErrorTexts == {"net::ERR_FAILED"}
FailureTypes == {NullStr}

\* A measurement of tab 1 has been started (without cold load and tracing) and
\* its START call has returned.
NetInit ==
  /\ sessions = [t \in Tabs |-> IF t = 1 THEN 1 ELSE NoSession]
  /\ heap = (1 :> createSession(FALSE, FALSE))
  /\ attached = [t \in Tabs |-> t = 1]
  /\ tracing = [t \in Tabs |-> "off"]
  /\ tabAlive = [t \in Tabs |-> TRUE]
  /\ tabStatus = [t \in Tabs |-> "complete"]
  /\ procs = [p \in Procs |-> IdleProc]
  /\ popup = ClosedPopup
  /\ storage = EmptyStorage

\* The link reports network activity while one STOP call may run.
NetNext ==
  \/ \E id \in ReqIds, url \in Urls, rtype \in ResourceTypes,
        ts \in TimeStamps, now \in Times :
       RequestWillBeSent(1, id, url, rtype, ts, now)
  \/ \E id \in ReqIds, cached \in BOOLEAN, mime \in MimeTypes, st \in Statuses :
       ResponseReceived(1, id, cached, mime, st)
  \/ \E id \in ReqIds, bytes \in ByteCounts, ts \in TimeStamps, now \in Times :
       LoadingFinished(1, id, bytes, ts, now)
  \/ \E id \in ReqIds, e \in ErrorTexts, ty \in FailureTypes :
       LoadingFailed(1, id, e, ty)
  \/ StopCall(1, 1)
  \/ \E ok \in BOOLEAN : GetMetricsReturns(1, ok)
  \/ StopObsReturns(1)
  \/ StopDetached(1)
  \/ GetTabReturns(1)
  \/ Return(1)

NetSpec == NetInit /\ [][NetNext]_vars

\* ---- the insights of a report --------------------------------------------

\* A report as generateInsights reads it: timings in ms, cls in thousandths,
\* byte counts; a null or missing property is None.  The text of a finding is
\* represented by the rule that writes it.
Finding(cls, text) == [cls |-> cls, text |-> text]

\* Array.prototype.reduce((s, d) => s + d.bytes, 0)
SumBytes(list) ==
  LET f[i \in 0..Len(list)] == IF i = 0 THEN 0 ELSE f[i - 1] + list[i].bytes
  IN f[Len(list)]

\* Every domain counted as third-party.
IsThirdParty_Always(d) == TRUE

IsThirdParty(d) == d.thirdParty

\* The LCP block with both comparisons inclusive.
LcpInsight_Inclusive(report) ==
  IF report.timings.lcp = None THEN <<>>
  ELSE IF report.timings.lcp[1] >= 4000 THEN <<Finding("poor", "lcp-poor")>>
  ELSE IF report.timings.lcp[1] >= 2500 THEN <<Finding("needs", "lcp-needs")>>
  ELSE <<>>

\* popup.js generateInsights, block by block: what each block pushes.
LcpInsight(report) ==
  IF report.timings.lcp = None THEN <<>>
  ELSE IF report.timings.lcp[1] > 4000 THEN <<Finding("poor", "lcp-poor")>>
  ELSE IF report.timings.lcp[1] > 2500 THEN <<Finding("needs", "lcp-needs")>>
  ELSE <<>>

InpInsight(report) ==
  IF report.timings.inp # None /\ report.timings.inp[1] > 200
  THEN <<Finding("poor", "inp")>> ELSE <<>>

LongTasksInsight(report) ==
  IF report.longTasks.totalMs # None /\ report.longTasks.totalMs[1] > 200
  THEN <<Finding("poor", "longTasks")>> ELSE <<>>

\* The CLS block as two independent tests, one per threshold.
ClsInsight_BothThresholds(report) ==
  IF report.timings.cls = None THEN <<>>
  ELSE (IF report.timings.cls[1] > 250 THEN <<Finding("poor", "cls")>> ELSE <<>>)
       \o (IF report.timings.cls[1] > 100 THEN <<Finding("needs", "cls")>> ELSE <<>>)

\* cls > 0.1 and cls > 0.25, in thousandths.
ClsInsight(report) ==
  IF report.timings.cls # None /\ report.timings.cls[1] > 100
  THEN <<Finding(IF report.timings.cls[1] > 250 THEN "poor" ELSE "needs", "cls")>>
  ELSE <<>>

TtfbInsight(report) ==
  IF report.timings.ttfb # None /\ report.timings.ttfb[1] > 800
  THEN <<Finding("needs", "ttfb")>> ELSE <<>>

\* The heavy-page block with a limit of two million bytes.
BytesInsight_TwoMillion(report) ==
  IF /\ report.network.transferredBytes # None
     /\ report.network.transferredBytes[1] >= 2 * 1000 * 1000
  THEN <<Finding("poor", "bytes")>> ELSE <<>>

BytesInsight(report) ==
  IF /\ report.network.transferredBytes # None
     /\ report.network.transferredBytes[1] > 2 * 1024 * 1024
  THEN <<Finding("poor", "bytes")>> ELSE <<>>

RequestsInsight(report) ==
  IF report.network.requestsTotal # None /\ report.network.requestsTotal[1] > 150
  THEN <<Finding("poor", "requests")>> ELSE <<>>

\* thirdBytes / totalBytes > 0.3, compared exactly.
ThirdPartyInsight(report) ==
  IF report.network.byDomain = None THEN <<>>
  ELSE LET totalBytes == SumBytes(report.network.byDomain[1])
           thirdBytes == SumBytes(SelectSeq(report.network.byDomain[1], IsThirdParty))
       IN IF totalBytes > 0 /\ thirdBytes * 10 > 3 * totalBytes
          THEN <<Finding("needs", "thirdParty")>> ELSE <<>>

\* null > 5 is false; cacheHitRate < 0.3, compared exactly.
CacheInsight(report) ==
  IF /\ report.network.cacheHitRate # None
     /\ report.network.requestsTotal # None
     /\ report.network.requestsTotal[1] > 5
     /\ report.network.cacheHitRate[1].num * 10 < 3 * report.network.cacheHitRate[1].den
  THEN <<Finding("needs", "cache")>> ELSE <<>>

FailuresInsight(report) ==
  IF report.network.failures # None /\ Len(report.network.failures[1]) > 0
  THEN <<Finding("poor", "failures")>> ELSE <<>>

\* popup.js generateInsights(report)
generateInsights(report) ==
  LET insights ==
        LcpInsight(report) \o InpInsight(report) \o LongTasksInsight(report)
        \o ClsInsight(report) \o TtfbInsight(report) \o BytesInsight(report)
        \o RequestsInsight(report) \o ThirdPartyInsight(report)
        \o CacheInsight(report) \o FailuresInsight(report)
  IN IF Len(insights) = 0 THEN <<Finding("good", "good")>> ELSE insights

\* report.js generateInsights(report): the same blocks push plain strings (the
\* CLS string names its severity) and there is no closing block.
InsightLine(finding) ==
  IF finding.text = "cls" THEN <<"cls", finding.cls>> ELSE <<finding.text>>

reportGenerateInsights(report) ==
  LET insights ==
        LcpInsight(report) \o InpInsight(report) \o LongTasksInsight(report)
        \o ClsInsight(report) \o TtfbInsight(report) \o BytesInsight(report)
        \o RequestsInsight(report) \o ThirdPartyInsight(report)
        \o CacheInsight(report) \o FailuresInsight(report)
  IN [i \in 1..Len(insights) |-> InsightLine(insights[i])]

\* The popup builds the insights of the report it holds (buildRunReport).
GenerateInsights ==
  /\ popup.report # None
  /\ popup.insights = None
  /\ popup' = [popup EXCEPT !.insights = Some(generateInsights(popup.report[1]))]
  /\ UNCHANGED <<sessions, heap, attached, tracing, tabAlive, tabStatus, procs, storage>>

\* report.js builds the insight strings of the same report.
ReportGenerateInsights ==
  /\ popup.report # None
  /\ popup.lines = None
  /\ popup' = [popup EXCEPT !.lines = Some(reportGenerateInsights(popup.report[1]))]
  /\ UNCHANGED <<sessions, heap, attached, tracing, tabAlive, tabStatus, procs, storage>>

\* Values on both sides of every threshold, and null.
LcpValues == {None, Some(2500), Some(2501), Some(4000), Some(4001)}
InpValues == {None, Some(200), Some(201)}
LongTaskValues == {None, Some(200), Some(201)}
ClsValues == {None, Some(100), Some(101), Some(250), Some(251)}
TtfbValues == {None, Some(800), Some(801)}
BytesValues == {None, Some(2 * 1024 * 1024), Some(2 * 1024 * 1024 + 1)}
RequestsValues == {None, Some(5), Some(6), Some(150), Some(151)}
ByDomainValues ==
  { None, Some(<<>>),
    Some(<< [domain |-> "a.com", requests |-> 1, bytes |-> 0, thirdParty |-> TRUE] >>),
    Some(<< [domain |-> "a.com", requests |-> 1, bytes |-> 70, thirdParty |-> FALSE],
            [domain |-> "b.net", requests |-> 1, bytes |-> 30, thirdParty |-> TRUE] >>),
    Some(<< [domain |-> "a.com", requests |-> 1, bytes |-> 69, thirdParty |-> FALSE],
            [domain |-> "b.net", requests |-> 1, bytes |-> 31, thirdParty |-> TRUE] >>) }
CacheValues == {None, Some(Ratio(29, 100)), Some(Ratio(30, 100))}
FailuresValues ==
  { None, Some(<<>>),
    Some(<< [url |-> "https://a.com/", errorText |-> "net::ERR_FAILED",
             type |-> "other"] >>) }

TimingsOf(lcp, inp, cls, ttfb) ==
  [lcp |-> lcp, inp |-> inp, cls |-> cls, ttfb |-> ttfb]

NetworkOf(bytes, requests, byDomain, cache, failures) ==
  [ transferredBytes |-> bytes, requestsTotal |-> requests,
    byDomain |-> byDomain, cacheHitRate |-> cache, failures |-> failures ]

\* The report of a run that measured nothing: no timing, no long task, no
\* request.
IdleReport ==
  [ timings |-> TimingsOf(None, None, None, None),
    longTasks |-> [totalMs |-> Some(0)],
    network |-> NetworkOf(Some(0), Some(0), Some(<<>>), None, Some(<<>>)) ]

\* Reports whose page metrics take every combination of values while the
\* network part is all null or all over its thresholds, and the converse.
Reports ==
  { [ timings |-> TimingsOf(lcp, inp, cls, ttfb),
      longTasks |-> [totalMs |-> lt],
      network |-> net ] :
      lcp \in LcpValues, inp \in InpValues, cls \in ClsValues,
      ttfb \in TtfbValues, lt \in LongTaskValues,
      net \in { NetworkOf(None, None, None, None, None),
                NetworkOf(Some(2 * 1024 * 1024 + 1), Some(151),
                          Some(<< [domain |-> "b.net", requests |-> 1,
                                   bytes |-> 1, thirdParty |-> TRUE] >>),
                          Some(Ratio(0, 151)),
                          Some(<< [url |-> "https://a.com/",
                                   errorText |-> "unknown", type |-> "other"] >>)) } }
  \cup
  { [ timings |-> tm,
      longTasks |-> [totalMs |-> tm.inp],
      network |-> NetworkOf(bytes, requests, byDomain, cache, failures) ] :
      tm \in { TimingsOf(None, None, None, None),
               TimingsOf(Some(4001), Some(201), Some(251), Some(801)) },
      bytes \in BytesValues, requests \in RequestsValues,
      byDomain \in ByDomainValues, cache \in CacheValues,
      failures \in FailuresValues }
  \cup { IdleReport }

\* The popup holds a report; nothing is measured.
InsightInit ==
  /\ sessions = [t \in Tabs |-> NoSession]
  /\ heap = <<>>
  /\ attached = [t \in Tabs |-> FALSE]
  /\ tracing = [t \in Tabs |-> "off"]
  /\ tabAlive = [t \in Tabs |-> TRUE]
  /\ tabStatus = [t \in Tabs |-> "complete"]
  /\ procs = [p \in Procs |-> IdleProc]
  /\ \E report \in Reports :
       popup = [report |-> Some(report), insights |-> None, lines |-> None]
  /\ storage = EmptyStorage

InsightNext == GenerateInsights \/ ReportGenerateInsights

InsightSpec == InsightInit /\ [][InsightNext]_vars

\* ---- two measured tabs --------------------------------------------------

Targets == {1, 2}

\* The session of tab 2 after some activity: one request that finished, and
\* one trace fragment.
BusySession ==
  TraceDataApplied(
    OnLoadingFinished(
      OnRequestWillBeSent(createSession(FALSE, TRUE), 1, "https://b.net/",
                          NullStr, None, 0),
      1, 1, None, 0),
    1)

\* Measurements of tab 1 and of tab 2 have been started and both START calls
\* have returned; tab 2 traces.
TwoTabInit ==
  /\ sessions = [t \in Targets |-> t]
  /\ heap = [t \in Targets |->
              IF t = 1 THEN createSession(FALSE, FALSE) ELSE BusySession]
  /\ attached = [t \in Targets |-> TRUE]
  /\ tracing = [t \in Targets |-> IF t = 1 THEN "off" ELSE "on"]
  /\ tabAlive = [t \in Targets |-> TRUE]
  /\ tabStatus = [t \in Targets |-> "complete"]
  /\ procs = [p \in Procs |-> IdleProc]
  /\ popup = ClosedPopup
  /\ storage = EmptyStorage

\* Everything that can be addressed to tab 1: its link's events, START and
\* STOP calls for it, and its forced cleanups.
TwoTabNext ==
  \/ \E now \in Times : RequestWillBeSent(1, 1, TabUrl, NullStr, None, now)
  \/ \E cached \in BOOLEAN, mime \in MimeTypes, st \in Statuses :
       ResponseReceived(1, 1, cached, mime, st)
  \/ \E bytes \in ByteCounts, now \in Times : LoadingFinished(1, 1, bytes, None, now)
  \/ \E e \in ErrorTexts, ty \in FailureTypes : LoadingFailed(1, 1, e, ty)
  \/ \E len \in 1..MaxChunkLen : TraceData(1, len)
  \/ TracingComplete(1)
  \/ \E c \in BOOLEAN, tr \in BOOLEAN, ok \in BOOLEAN : StartCall(1, 1, c, tr, ok)
  \/ AttachFails(1)
  \/ AttachSucceeds(1)
  \/ EnableSucceeds(1)
  \/ EnableFails(1)
  \/ EnableFailed(1)
  \/ TraceStartSucceeds(1)
  \/ TraceStartFails(1)
  \/ ColdStepSucceeds(1)
  \/ ColdStepFails(1)
  \/ TabsReloadReturns(1)
  \/ \E ok \in BOOLEAN : PingReturns(1, ok)
  \/ InjectSucceeds(1)
  \/ InjectFails(1)
  \/ StartObsReturns(1)
  \/ StopCall(1, 1)
  \/ \E ok \in BOOLEAN : GetMetricsReturns(1, ok)
  \/ StopObsReturns(1)
  \/ TraceEndSucceeds(1)
  \/ TraceEndFails(1)
  \/ GraceElapsed(1)
  \/ StopDetached(1)
  \/ GetTabReturns(1)
  \/ Return(1)
  \/ OnDetach(1)
  \/ OnRemoved(1)
  \/ OnUpdated(1)
  \/ OnComplete(1)

TwoTabSpec == TwoTabInit /\ [][TwoTabNext]_vars

\* ---- one call at a time, with any fragment the link may deliver ----------

\* A fragment of the trace the browser is recording, or one that reaches a
\* tab whose session does not trace (or that has no session).
Fragment(t, len) ==
  /\ tracing[t] # "off" \/ ~Target(t).traceEnabled
  /\ DataCollected(t, len, MaxFragments)

\* START and STOP calls of tab 1 run one after the other, with every fragment
\* the link may deliver.
TraceNext ==
  \/ \E c \in BOOLEAN, tr \in BOOLEAN, ok \in BOOLEAN : StartCall(1, 1, c, tr, ok)
  \/ AttachFails(1)
  \/ AttachSucceeds(1)
  \/ EnableSucceeds(1)
  \/ EnableFails(1)
  \/ EnableFailed(1)
  \/ TraceStartSucceeds(1)
  \/ TraceStartFails(1)
  \/ ColdStepSucceeds(1)
  \/ ColdStepFails(1)
  \/ TabsReloadReturns(1)
  \/ \E ok \in BOOLEAN : PingReturns(1, ok)
  \/ InjectSucceeds(1)
  \/ InjectFails(1)
  \/ StartObsReturns(1)
  \/ StopCall(1, 1)
  \/ \E ok \in BOOLEAN : GetMetricsReturns(1, ok)
  \/ StopObsReturns(1)
  \/ TraceEndSucceeds(1)
  \/ TraceEndFails(1)
  \/ GraceElapsed(1)
  \/ StopDetached(1)
  \/ GetTabReturns(1)
  \/ Return(1)
  \/ \E len \in 1..MaxFragLen : Fragment(1, len)
  \/ TracingComplete(1)

TraceSpec == Init /\ [][TraceNext]_vars

\* ---- fragments that arrive while the detach is awaited -------------------

\* chrome.debugger.onEvent, Tracing.dataCollected, for a fragment the browser
\* had sent on the link before it processed the detach that call p of
\* stopMeasurement issued: the listener runs while the call awaits the detach
\* callback, with the session still in the store (sessions.delete follows the
\* await).  The session traces, so the browser was recording when the detach
\* was issued (SnapshotSpec has no tracingComplete and no loss of the link).
LateFragment(p, len) ==
  /\ At(p, "stop", "detach")
  /\ HasSession(procs[p].tab)
  /\ heap[getSession(procs[p].tab)].traceEnabled
  /\ Len(heap[getSession(procs[p].tab)].traceChunks) < MaxFragments
  /\ heap' = [heap EXCEPT ![getSession(procs[p].tab)] = TraceDataApplied(@, len)]
  /\ UNCHANGED <<sessions, attached, tracing, tabAlive, tabStatus, procs, popup, storage>>

\* A START and a STOP of tab 1 one after the other on a link that stays up,
\* with the fragments of the trace arriving at any time until the detach
\* callback.
SnapshotNext ==
  \/ \E tr \in BOOLEAN, ok \in BOOLEAN : StartCall(1, 1, FALSE, tr, ok)
  \/ AttachFails(1)
  \/ AttachSucceeds(1)
  \/ EnableSucceeds(1)
  \/ EnableFails(1)
  \/ EnableFailed(1)
  \/ TraceStartSucceeds(1)
  \/ TraceStartFails(1)
  \/ \E ok \in BOOLEAN : PingReturns(1, ok)
  \/ InjectSucceeds(1)
  \/ InjectFails(1)
  \/ StartObsReturns(1)
  \/ StopCall(1, 1)
  \/ \E ok \in BOOLEAN : GetMetricsReturns(1, ok)
  \/ StopObsReturns(1)
  \/ TraceEndSucceeds(1)
  \/ TraceEndFails(1)
  \/ GraceElapsed(1)
  \/ StopDetached(1)
  \/ GetTabReturns(1)
  \/ Return(1)
  \/ \E len \in 1..MaxFragLen : Fragment(1, len)
  \/ \E len \in 1..MaxFragLen : LateFragment(1, len)

SnapshotSpec == Init /\ [][SnapshotNext]_vars

\* ---- every awaited call of stopMeasurement returns -----------------------

\* The continuation of call p of stopMeasurement after one of its awaits:
\* the answer of the content script, of the debugger or of chrome.tabs, or
\* the 500 ms timer.
StopStep(p) ==
  \/ \E ok \in BOOLEAN : GetMetricsReturns(p, ok)
  \/ StopObsReturns(p)
  \/ TraceEndSucceeds(p)
  \/ TraceEndFails(p)
  \/ GraceElapsed(p)
  \/ StopDetached(p)
  \/ GetTabReturns(p)

\* A warm START of tab 1 by call 1, STOPs of tab 1 by either call (they may
\* overlap the START and each other), and the events of the tab and of the
\* link while they run.
LiveNext ==
  \/ \E tr \in BOOLEAN, ok \in BOOLEAN : StartCall(1, 1, FALSE, tr, ok)
  \/ AttachFails(1)
  \/ AttachSucceeds(1)
  \/ EnableSucceeds(1)
  \/ EnableFails(1)
  \/ EnableFailed(1)
  \/ TraceStartSucceeds(1)
  \/ TraceStartFails(1)
  \/ \E ok \in BOOLEAN : PingReturns(1, ok)
  \/ InjectSucceeds(1)
  \/ InjectFails(1)
  \/ StartObsReturns(1)
  \/ \E p \in Procs : StopCall(p, 1)
  \/ \E p \in Procs : StopStep(p)
  \/ \E p \in Procs : Return(p)
  \/ Fragment(1, 1)
  \/ TracingComplete(1)
  \/ OnDetach(1)
  \/ OnRemoved(1)

\* Every callback and every timer of a stop runs in the end; nothing is
\* assumed of the events of the page, of the browser or of other calls.
LiveSpec ==
  Init /\ [][LiveNext]_vars /\ \A p \in Procs : WF_vars(StopStep(p))

\* ---- START messages for any page ------------------------------------------

\* As LiveNext, with the START arriving as a message while the active tab
\* shows any of ActiveUrls (a tab that is measured may have gone to a
\* protected page since).
MessageNext ==
  \/ \E tab \in ActiveTabs, tr \in BOOLEAN, ok \in BOOLEAN :
       StartMessage(1, tab, FALSE, tr, ok)
  \/ AttachFails(1)
  \/ AttachSucceeds(1)
  \/ EnableSucceeds(1)
  \/ EnableFails(1)
  \/ EnableFailed(1)
  \/ TraceStartSucceeds(1)
  \/ TraceStartFails(1)
  \/ \E ok \in BOOLEAN : PingReturns(1, ok)
  \/ InjectSucceeds(1)
  \/ InjectFails(1)
  \/ StartObsReturns(1)
  \/ \E p \in Procs : StopCall(p, 1)
  \/ \E p \in Procs : StopStep(p)
  \/ \E p \in Procs : Return(p)
  \/ Fragment(1, 1)
  \/ TracingComplete(1)
  \/ OnDetach(1)
  \/ OnRemoved(1)

MessageSpec == Init /\ [][MessageNext]_vars

\* ---- the run history ---------------------------------------------------------

MAX_HISTORY == 10
MaxSaves == 12
MaxOtherSaves == 1

\* The trace section of a report: traceInfo of the service worker, with and
\* without a captured trace.
HistoryTraces ==
  { [captured |-> FALSE],
    [captured |-> TRUE, sizeBytes |-> 1, downloadAvailable |-> TRUE,
     chunks |-> <<1>>] }

\* What the history needs of a report: meta.origin, meta.timestamp and trace.
RunReport(origin, timestamp, trace) ==
  [meta |-> [origin |-> origin, timestamp |-> timestamp], trace |-> trace]

\* popup.js: { ...report, trace: { captured, sizeBytes } }; a property that is
\* undefined is not stored.
StripTrace(report) ==
  [report EXCEPT !.trace =
     IF "sizeBytes" \in DOMAIN report.trace
     THEN [captured |-> report.trace.captured, sizeBytes |-> report.trace.sizeBytes]
     ELSE [captured |-> report.trace.captured]]

\* result[key] ?? []
HistoryOf(store, key) == IF store[key] = None THEN <<>> ELSE store[key][1]

\* history.push(toSave) in the place of unshift.
Unshift_Push(history, toSave) == Append(history, toSave)

\* history.unshift(toSave); if (history.length > MAX_HISTORY) history.length =
\* MAX_HISTORY
Unshift(history, toSave) == <<toSave>> \o history

Truncate(history) ==
  IF Len(history) > MAX_HISTORY THEN SubSeq(history, 1, MAX_HISTORY) ELSE history

\* saveReport(report) is called when no other save is in flight: the key is
\* built and chrome.storage.local.get is issued; the store answers requests
\* in the order they were issued.  The report is the one of a new run.
SaveCall(module, origin, trace) ==
  /\ storage.saving = None
  /\ storage.module = module
  /\ storage.clock < MaxSaves
  /\ origin # "https://a.com"
       => Len(HistoryOf(storage.local, KeyOf(origin))) < MaxOtherSaves
  /\ LET report == RunReport(origin, storage.clock + 1, trace)
         key == KeyOf(report.meta.origin)
     IN storage' = [storage EXCEPT
          !.clock = @ + 1,
          !.saving = Some([pc |-> "get", key |-> key, report |-> report,
                           result |-> storage.local[key]])]
  /\ UNCHANGED <<sessions, heap, attached, tracing, tabAlive, tabStatus, procs, popup>>

\* popup.js saveReport
SaveReport(origin, trace) == SaveCall("popup.js", origin, trace)

\* report.js saveReport
ReportSaveReport(origin, trace) == SaveCall("report.js", origin, trace)

\* The callback of get: the new entry is put in front, the list is cut to
\* MAX_HISTORY and chrome.storage.local.set is issued.  popup.js stores the
\* report without its trace chunks, report.js the report itself.
SaveGot ==
  /\ storage.saving # None
  /\ storage.saving[1].pc = "get"
  /\ LET call == storage.saving[1]
         history == IF call.result = None THEN <<>> ELSE call.result[1]
         toSave == IF storage.module = "popup.js"
                   THEN StripTrace(call.report) ELSE call.report
     IN storage' = [storage EXCEPT
          !.local[call.key] = Some(Truncate(Unshift(history, toSave))),
          !.saving = Some([call EXCEPT !.pc = "set"])]
  /\ UNCHANGED <<sessions, heap, attached, tracing, tabAlive, tabStatus, procs, popup>>

\* The callback of set: the promise of saveReport resolves.
SaveResolved ==
  /\ storage.saving # None
  /\ storage.saving[1].pc = "set"
  /\ storage' = [storage EXCEPT !.saving = None]
  /\ UNCHANGED <<sessions, heap, attached, tracing, tabAlive, tabStatus, procs, popup>>

\* loadHistory(origin)
loadHistory(origin) == HistoryOf(storage.local, KeyOf(origin))

\* Nothing is measured; the page that saves the reports has loaded popup.js or
\* report.js.
HistoryInit ==
  /\ sessions = [t \in Tabs |-> NoSession]
  /\ heap = <<>>
  /\ attached = [t \in Tabs |-> FALSE]
  /\ tracing = [t \in Tabs |-> "off"]
  /\ tabAlive = [t \in Tabs |-> TRUE]
  /\ tabStatus = [t \in Tabs |-> "complete"]
  /\ procs = [p \in Procs |-> IdleProc]
  /\ popup = ClosedPopup
  /\ \E module \in {"popup.js", "report.js"} :
       storage = [EmptyStorage EXCEPT !.module = module]

\* Reports of new runs are saved one after the other.
HistoryNext ==
  \/ \E origin \in Origins, trace \in HistoryTraces : SaveReport(origin, trace)
  \/ \E origin \in Origins, trace \in HistoryTraces : ReportSaveReport(origin, trace)
  \/ SaveGot
  \/ SaveResolved

HistorySpec == HistoryInit /\ [][HistoryNext]_vars

\* ---- saves that overlap ----------------------------------------------------

MaxInFlight == 2        \* saveReport calls awaiting the store at one time
MaxOverlapSaves == 4    \* saveReport calls of a run with overlapping saves

\* saveReport(report) is called while other saves may be in flight (the
\* in-flight calls are storage.saving, oldest first): the key is built and
\* chrome.storage.local.get is issued, and the store reads the list.
OverlappingSave(module, origin, trace) ==
  /\ Len(storage.saving) < MaxInFlight
  /\ storage.module = module
  /\ storage.clock < MaxOverlapSaves
  /\ LET report == RunReport(origin, storage.clock + 1, trace)
         key == KeyOf(report.meta.origin)
     IN storage' = [storage EXCEPT
          !.clock = @ + 1,
          !.saving = Append(@, [pc |-> "get", key |-> key, report |-> report,
                                result |-> storage.local[key]])]
  /\ UNCHANGED <<sessions, heap, attached, tracing, tabAlive, tabStatus, procs, popup>>

\* The callback of get of the in-flight call i (the store answers in the
\* order of the requests): the entry is put in front of the list that was
\* read, the list is cut and chrome.storage.local.set is issued.
SaveGotOf(i) ==
  /\ i \in 1..Len(storage.saving)
  /\ storage.saving[i].pc = "get"
  /\ \A j \in 1..(i - 1) : storage.saving[j].pc # "get"
  /\ LET call == storage.saving[i]
         history == IF call.result = None THEN <<>> ELSE call.result[1]
         toSave == IF storage.module = "popup.js"
                   THEN StripTrace(call.report) ELSE call.report
     IN storage' = [storage EXCEPT
          !.local[call.key] = Some(Truncate(Unshift(history, toSave))),
          !.saving[i] = [call EXCEPT !.pc = "set"]]
  /\ UNCHANGED <<sessions, heap, attached, tracing, tabAlive, tabStatus, procs, popup>>

\* The callback of set of the oldest in-flight call: its promise resolves.
OldestSaveResolved ==
  /\ storage.saving # <<>>
  /\ storage.saving[1].pc = "set"
  /\ storage' = [storage EXCEPT !.saving = Tail(@)]
  /\ UNCHANGED <<sessions, heap, attached, tracing, tabAlive, tabStatus, procs, popup>>

\* Reports of one origin are saved by calls that may overlap.
OverlapNext ==
  \/ \E trace \in HistoryTraces : OverlappingSave("popup.js", "https://a.com", trace)
  \/ \E trace \in HistoryTraces : OverlappingSave("report.js", "https://a.com", trace)
  \/ \E i \in 1..MaxInFlight : SaveGotOf(i)
  \/ OldestSaveResolved

OverlapSpec == HistoryInit /\ [][OverlapNext]_vars

\* ---- a page that loads many resources ---------------------------------------

MaxPageRequests == 11

\* The resources of the page in the order it requests them, on three hosts.
PageUrls ==
  << "https://a.com/1", "https://b.net/2", "https://example.com/3",
     "https://a.com/4", "https://b.net/5", "https://example.com/6",
     "https://a.com/7", "https://b.net/8", "https://example.com/9",
     "https://a.com/10", "https://b.net/11", "https://example.com/12" >>

\* Seconds a resource takes, which is also its encodedDataLength.
LoadTimes == {1, 2}

\* The id of the request the page sends next.
NextRequest == Len(Target(1).requestMap) + 1

\* The page requests its next resource once the one before has been loaded.
PageRequest ==
  /\ NextRequest <= MaxPageRequests
  /\ \A i \in 1..Len(Target(1).requestMap) : ~Skipped(Target(1).requestMap[i])
  /\ Deliver(1, OnRequestWillBeSent(Target(1), NextRequest,
                                    PageUrls[NextRequest], NullStr, Some(0), 0))

\* The resource requested last has been loaded.
PageLoaded(seconds) ==
  /\ Target(1).requestMap # <<>>
  /\ Skipped(Target(1).requestMap[Len(Target(1).requestMap)])
  /\ Deliver(1, OnLoadingFinished(Target(1), Len(Target(1).requestMap),
                                  seconds, Some(seconds), 0))

\* The measured page loads its resources; one STOP call may run.
PageNext ==
  \/ PageRequest
  \/ \E seconds \in LoadTimes : PageLoaded(seconds)
  \/ StopCall(1, 1)
  \/ \E ok \in BOOLEAN : GetMetricsReturns(1, ok)
  \/ StopObsReturns(1)
  \/ StopDetached(1)
  \/ GetTabReturns(1)
  \/ Return(1)

PageSpec == NetInit /\ [][PageNext]_vars

\* ---- from the STOP response to the report ----------------------------------

\* A property that is undefined (missing), as opposed to null (None) and to
\* every value Some(v).
Undefined == <<0, 0>>

\* x ?? d without the default.
Coalesce_Keep(x, d) == x

\* x ?? d
Coalesce(x, d) == IF x = Undefined \/ x = None THEN d ELSE x

\* The object {}: every property the popup reads of it is undefined.
EmptyMetrics ==
  [ ttfb |-> Undefined, fcp |-> Undefined, lcp |-> Undefined, inp |-> Undefined,
    cls |-> Undefined, dcl |-> Undefined, load |-> Undefined,
    longTaskCount |-> Undefined, longTaskTotal |-> Undefined,
    longTaskMax |-> Undefined, resources |-> Undefined,
    lcpElement |-> Undefined, clsSources |-> Undefined ]

\* resp.metrics of the content script: a page with a slow LCP, a large layout
\* shift (0.3, in thousandths) and a slow first byte; a page that reports
\* null for what it could not observe; a page with every metric.
PageMetrics ==
  { [EmptyMetrics EXCEPT !.lcp = Some(5000), !.cls = Some(300), !.ttfb = Some(900)],
    [EmptyMetrics EXCEPT !.lcp = None, !.inp = None, !.cls = None,
                         !.longTaskTotal = Some(0)],
    [ ttfb |-> Some(100), fcp |-> Some(200), lcp |-> Some(300), inp |-> Some(50),
      cls |-> Some(10), dcl |-> Some(400), load |-> Some(500),
      longTaskCount |-> Some(1), longTaskTotal |-> Some(60),
      longTaskMax |-> Some(60),
      resources |-> Some([byType |-> Some(<<>>), slowest |-> Some(<<>>)]),
      lcpElement |-> Some([tag |-> "IMG"]), clsSources |-> Some(<<>>) ] }

\* The networkData object of the response, property by property.
ResponseData(networkData) ==
  [ requestsTotal |-> Some(networkData.requestsTotal),
    transferredBytes |-> Some(networkData.transferredBytes),
    cacheHitRate |-> networkData.cacheHitRate,
    failures |-> Some(networkData.failures),
    byDomain |-> Some(networkData.byDomain),
    byType |-> Some(networkData.byType),
    slowest |-> Some(networkData.slowest) ]

\* pageMetrics.resources?.byType ?? [] and pageMetrics.resources?.slowest ?? []
ResourcesPart(resources, part) ==
  IF resources = Undefined \/ resources = None THEN Some(<<>>)
  ELSE IF part = "byType" THEN Coalesce(resources[1].byType, Some(<<>>))
  ELSE Coalesce(resources[1].slowest, Some(<<>>))

\* popup.js buildRunReport(meta, pageMetrics, networkData, traceInfo), without
\* the insights it adds at its end.
buildRunReport(meta, pageMetrics, networkData, traceInfo) ==
  [ meta |-> meta,
    timings |->
      [ ttfb |-> Coalesce(pageMetrics.ttfb, None),
        fcp |-> Coalesce(pageMetrics.fcp, None),
        lcp |-> Coalesce(pageMetrics.lcp, None),
        inp |-> Coalesce(pageMetrics.inp, None),
        cls |-> Coalesce(pageMetrics.cls, None),
        dcl |-> Coalesce(pageMetrics.dcl, None),
        load |-> Coalesce(pageMetrics.load, None) ],
    longTasks |->
      [ count |-> Coalesce(pageMetrics.longTaskCount, Some(0)),
        totalMs |-> Coalesce(pageMetrics.longTaskTotal, Some(0)),
        maxMs |-> Coalesce(pageMetrics.longTaskMax, Some(0)) ],
    network |->
      [ requestsTotal |-> Coalesce(networkData.requestsTotal, Some(0)),
        transferredBytes |-> Coalesce(networkData.transferredBytes, Some(0)),
        cacheHitRate |-> Coalesce(networkData.cacheHitRate, None),
        failures |-> Coalesce(networkData.failures, Some(<<>>)),
        byDomain |-> Coalesce(networkData.byDomain, Some(<<>>)),
        byType |-> ResourcesPart(pageMetrics.resources, "byType"),
        slowest |-> ResourcesPart(pageMetrics.resources, "slowest") ],
    resources |-> Coalesce(pageMetrics.resources, Some(<<>>)),
    lcpElement |-> Coalesce(pageMetrics.lcpElement, None),
    clsSources |-> Coalesce(pageMetrics.clsSources, Some(<<>>)),
    trace |-> Coalesce(traceInfo, Some([captured |-> FALSE])) ]

\* report.js buildRunReport(meta, pageMetrics, networkData, traceInfo), without
\* the insights it adds at its end: byType and slowest are those of
\* networkData.
reportBuildRunReport(meta, pageMetrics, networkData, traceInfo) ==
  [ buildRunReport(meta, pageMetrics, networkData, traceInfo) EXCEPT
      !.network.byType = Coalesce(networkData.byType, Some(<<>>)),
      !.network.slowest = Coalesce(networkData.slowest, Some(<<>>)) ]

\* What resp.metrics may be for a stop that took it, and {} for one that did
\* not.
MetricsOf(rec) ==
  IF rec.pageMetrics = "empty" THEN {EmptyMetrics} ELSE PageMetrics

\* The STOP call answers {ok: true, pageMetrics, networkData, traceInfo}; the
\* click handler of the popup builds the report and its insights from it.
StopResponse(p, metrics) ==
  /\ At(p, "stop", "done")
  /\ procs[p].result = "ok"
  /\ metrics \in MetricsOf(procs[p])
  /\ LET meta == [origin |-> "https://a.com", coldLoad |-> FALSE,
                  traceEnabled |-> FALSE]
         report == buildRunReport(meta, metrics,
                                  ResponseData(procs[p].networkData[1]),
                                  Some(procs[p].traceInfo))
     IN popup' = [popup EXCEPT !.report = Some(report),
                               !.insights = Some(generateInsights(report))]
  /\ procs' = [procs EXCEPT ![p] = IdleProc]
  /\ UNCHANGED <<sessions, heap, attached, tracing, tabAlive, tabStatus, storage>>

\* One resource requested and loaded within a second.
Loaded(session, id, url, bytes) ==
  OnLoadingFinished(
    OnRequestWillBeSent(session, id, url, NullStr, Some(0), 0),
    id, bytes, Some(1), 0)

\* Sessions at the moment STOP is clicked: nothing requested; one resource of
\* example.com just below, at and above 2 MiB; the page's own host and another
\* host with 30 % and with 31 % of the bytes.
MeasuredSessions ==
  { createSession(FALSE, FALSE) }
  \cup { Loaded(createSession(FALSE, FALSE), 1, "https://example.com/app.js", bytes) :
           bytes \in {2000000, 2 * 1024 * 1024, 2 * 1024 * 1024 + 1} }
  \cup { Loaded(Loaded(createSession(FALSE, FALSE), 1, "https://a.com/", 100 - bytes),
                2, "https://b.net/", bytes) : bytes \in {30, 31} }

\* A measurement of tab 1 is running.
ReportInit ==
  /\ sessions = [t \in Tabs |-> IF t = 1 THEN 1 ELSE NoSession]
  /\ \E session \in MeasuredSessions : heap = (1 :> session)
  /\ attached = [t \in Tabs |-> t = 1]
  /\ tracing = [t \in Tabs |-> "off"]
  /\ tabAlive = [t \in Tabs |-> TRUE]
  /\ tabStatus = [t \in Tabs |-> "complete"]
  /\ procs = [p \in Procs |-> IdleProc]
  /\ popup = ClosedPopup
  /\ storage = EmptyStorage

\* STOP is clicked, the tab may be closed while the call runs, and the popup
\* builds the report from the answer.
ReportNext ==
  \/ StopCall(1, 1)
  \/ \E ok \in BOOLEAN : GetMetricsReturns(1, ok)
  \/ StopObsReturns(1)
  \/ StopDetached(1)
  \/ GetTabReturns(1)
  \/ OnRemoved(1)
  \/ \E metrics \in PageMetrics \cup {EmptyMetrics} : StopResponse(1, metrics)

ReportSpec == ReportInit /\ [][ReportNext]_vars

\* ---- popup.js and report.js on the same input -------------------------------

\* The arguments of buildRunReport: any page metrics, the network data of any
\* of the measured sessions with the page host known or not, a trace or none.
MirrorInputs ==
  { [ meta |-> [origin |-> "https://a.com", coldLoad |-> FALSE,
                traceEnabled |-> FALSE],
      pageMetrics |-> metrics,
      networkData |-> ResponseData(BuildNetworkData(session, pageHost)),
      traceInfo |-> traceInfo ] :
      metrics \in PageMetrics \cup {EmptyMetrics},
      session \in MeasuredSessions,
      pageHost \in {NullStr, "a.com"},
      traceInfo \in {Undefined, Some([captured |-> TRUE, sizeBytes |-> 1])} }

\* The page holds the arguments; neither module has built its report.
MirrorInit ==
  /\ sessions = [t \in Tabs |-> NoSession]
  /\ heap = <<>>
  /\ attached = [t \in Tabs |-> FALSE]
  /\ tracing = [t \in Tabs |-> "off"]
  /\ tabAlive = [t \in Tabs |-> TRUE]
  /\ tabStatus = [t \in Tabs |-> "complete"]
  /\ procs = [p \in Procs |-> IdleProc]
  /\ \E input \in MirrorInputs :
       popup = [ report |-> None, insights |-> None, lines |-> None,
                 mirror |-> None, input |-> input ]
  /\ storage = EmptyStorage

\* popup.js: report = buildRunReport(...), with report.insights
BuildRunReport ==
  /\ popup.report = None
  /\ LET in == popup.input
         report == buildRunReport(in.meta, in.pageMetrics, in.networkData,
                                  in.traceInfo)
     IN popup' = [popup EXCEPT !.report = Some(report),
                               !.insights = Some(generateInsights(report))]
  /\ UNCHANGED <<sessions, heap, attached, tracing, tabAlive, tabStatus, procs, storage>>

\* report.js: report = buildRunReport(...), with report.insights
ReportBuildRunReport ==
  /\ popup.mirror = None
  /\ LET in == popup.input
         report == reportBuildRunReport(in.meta, in.pageMetrics, in.networkData,
                                        in.traceInfo)
     IN popup' = [popup EXCEPT !.mirror = Some(report),
                               !.lines = Some(reportGenerateInsights(report))]
  /\ UNCHANGED <<sessions, heap, attached, tracing, tabAlive, tabStatus, procs, storage>>

MirrorNext == BuildRunReport \/ ReportBuildRunReport

MirrorSpec == MirrorInit /\ [][MirrorNext]_vars

\* ---- type correctness ---------------------------------------------------

TypeOK ==
  /\ sessions \in [Tabs -> Sids \cup {NoSession}]
  /\ DOMAIN heap \subseteq Sids
  /\ \A t \in Tabs : HasSession(t) => sessions[t] \in DOMAIN heap
  /\ \A p \in Procs : procs[p].sid # NoSession => procs[p].sid \in DOMAIN heap
  /\ attached \in [Tabs -> BOOLEAN]
  /\ tabAlive \in [Tabs -> BOOLEAN]
  /\ tabStatus \in [Tabs -> {"loading", "complete"}]

\* ---- properties of the session engine -----------------------------------

\* No startMeasurement or stopMeasurement for tab t is between two awaits.
Quiescent(t) ==
  \A p \in Procs : procs[p].tab = t => procs[p].pc \in {"idle", "done"}

\* Step predicates: call p makes a step of its own (its position changes).
Steps(p) == procs'[p].pc # procs[p].pc
Calls(p, op) == procs[p].op = "idle" /\ procs'[p].op = op

\* C1: a START for a tab whose session is registered is refused with
\* "Measurement already active for this tab.", issues no attach and leaves
\* the store, the link and every field of the existing session as they were.
C1_StartWhileActive ==
  [][\A p \in Procs :
       (Calls(p, "start") /\ sessions[procs'[p].tab] # NoSession) =>
         /\ procs'[p].pc = "done"
         /\ procs'[p].result = "AlreadyActive"
         /\ sessions' = sessions
         /\ heap' = heap
         /\ attached' = attached]_vars

C1_Witness ==
  \E p \in Procs :
    /\ procs[p].op = "start"
    /\ procs[p].result = "AlreadyActive"
    /\ sessions[procs[p].tab] # NoSession
    /\ heap[sessions[procs[p].tab]].traceChunks # <<>>

\* The link of tab t is held on behalf of a start whose attach has been
\* granted and whose callback, which registers the session, is still to run.
LinkPending(t) ==
  \E q \in Procs : procs[q].op = "start" /\ procs[q].tab = t /\ procs[q].pc = "attach_ok"

\* C2: when the teardown of stopMeasurement is over, that call has issued
\* the detach once and deleted the key once, and the tab is neither
\* registered nor attached (a link granted meanwhile to a new start that has
\* not registered its session yet is not counted against it).
C2_StopTeardown ==
  [][\A p \in Procs :
       (procs[p].op = "stop" /\ procs[p].pc = "detach" /\ Steps(p)) =>
         /\ procs'[p].detaches = 1
         /\ procs'[p].removes = 1
         /\ sessions'[procs[p].tab] = NoSession
         /\ attached'[procs[p].tab] => LinkPending(procs[p].tab)']_vars

\* C3: with no start or stop of the tab in flight, the link is attached only
\* if a session of the tab is registered.
C3_NoLinkWithoutSession ==
  \A t \in Tabs : (Quiescent(t) /\ attached[t]) => sessions[t] # NoSession

\* C4: a start that fails with an attach error or with the Network.enable
\* failure leaves the tab neither registered nor attached (a link granted to
\* a start that has not registered its session yet is not counted).
C4_FailedStartLeavesNothing ==
  [][\A p \in Procs :
       ( /\ procs[p].op = "start"
         /\ Steps(p)
         /\ procs'[p].pc = "done"
         /\ procs'[p].result \in {"AttachError", "ChannelEnableFailed"} ) =>
         /\ sessions'[procs[p].tab] = NoSession
         /\ attached'[procs[p].tab] => LinkPending(procs[p].tab)']_vars

StopPcs == {"get_metrics", "stop_obs", "trace_end", "grace", "detach", "get_tab"}

C6_StopOnlyFailsWithoutSession ==
  [][\A p \in Procs :
       /\ (Calls(p, "stop") /\ sessions[procs'[p].tab] # NoSession) =>
            /\ procs'[p].pc = "get_metrics"
            /\ procs'[p].pageMetrics = "empty"
       /\ (procs[p].op = "stop" /\ procs[p].pc \in StopPcs /\ Steps(p)) =>
            /\ procs'[p].pc \in StopPcs \cup {"done"}
            /\ procs'[p].pc = "done" => procs'[p].result = "ok"
            /\ (procs[p].pc = "get_metrics" /\ ~tabAlive[procs[p].tab]) =>
                 procs'[p].pageMetrics = "empty"
            /\ procs[p].pc # "get_metrics" =>
                 procs'[p].pageMetrics = procs[p].pageMetrics]_vars

\* A stop returned its result, with pageMetrics {}, although the tab was
\* closed while it ran.
C6_Witness ==
  \E p \in Procs :
    /\ At(p, "stop", "done")
    /\ procs[p].result = "ok"
    /\ procs[p].pageMetrics = "empty"
    /\ ~tabAlive[procs[p].tab]

\* C7: a STOP for a tab with no registered session fails with "No active
\* measurement for this tab.", issues no detach and leaves the store alone.
C7_StopWithoutSession ==
  [][\A p \in Procs :
       (Calls(p, "stop") /\ sessions[procs'[p].tab] = NoSession) =>
         /\ procs'[p].pc = "done"
         /\ procs'[p].result = "NoActiveSession"
         /\ procs'[p].detaches = 0
         /\ procs'[p].removes = 0
         /\ attached' = attached
         /\ tracing' = tracing
         /\ sessions' = sessions
         /\ heap' = heap]_vars

\* The stop is refused while the start whose Network.enable failed is still
\* to be answered.
C7_Witness ==
  \E p, q \in Procs :
    /\ At(p, "stop", "done")
    /\ procs[p].result = "NoActiveSession"
    /\ At(q, "start", "done")
    /\ procs[q].result = "ChannelEnableFailed"
    /\ procs[q].tab = procs[p].tab

\* C8: past the success of Network.enable no step of a start fails it or
\* touches the store or the link: whatever Tracing.start, the reloads and the
\* content script do, the start goes on and returns success.
PostEnablePcs == {"trace_start", "clear_cache", "page_enable", "page_reload",
                  "tabs_reload", "ping", "inject", "start_obs"}

C8_StartDegrades ==
  [][\A p \in Procs :
       (procs[p].op = "start" /\ procs[p].pc \in PostEnablePcs /\ Steps(p)) =>
         /\ procs'[p].pc \in PostEnablePcs \cup {"done"}
         /\ procs'[p].pc = "done" => procs'[p].result = "ok"
         /\ sessions' = sessions
         /\ attached' = attached]_vars

\* Tracing.start and the CDP reload have failed, the fallback reload is
\* awaited, and the session is registered.
C8_Witness ==
  \E p \in Procs :
    /\ At(p, "start", "tabs_reload")
    /\ procs[p].traceEnabled
    /\ ~heap[procs[p].sid].traceEnabled
    /\ sessions[procs[p].tab] = procs[p].sid

\* C9: when the tab of a registered session is closed, loses the link from
\* outside, or reports "loading" while the session is no cold load, the
\* session leaves the store and the link is released; status then reports
\* inactive.
C9_ForcedCleanup ==
  [][\A t \in Tabs :
       ( /\ sessions[t] # NoSession
         /\ \/ OnRemoved(t)
            \/ OnDetach(t)
            \/ OnUpdated(t) /\ ~heap[sessions[t]].coldLoad ) =>
         /\ sessions'[t] = NoSession
         /\ ~attached'[t]
         /\ ~Status(t)']_vars

\* The tab reports "loading", the session that was registered is gone and
\* the link is released while its start is still under way.
C9_Witness ==
  \E p \in Procs :
    /\ procs[p].op = "start"
    /\ procs[p].pc \in PostEnablePcs
    /\ ~procs[p].coldLoad
    /\ tabStatus[procs[p].tab] = "loading"
    /\ sessions[procs[p].tab] = NoSession
    /\ ~attached[procs[p].tab]

\* C10: a "loading" update of the tab of a cold-load session neither removes
\* the session nor releases the link, and the coldLoad flag of a session is
\* the option of its start and never changes.
C10_ColdLoadSurvivesNavigation ==
  [][/\ \A t \in Tabs :
          (sessions[t] # NoSession /\ heap[sessions[t]].coldLoad /\ OnUpdated(t)) =>
            /\ sessions' = sessions
            /\ attached' = attached
            /\ heap' = heap
     /\ \A s \in DOMAIN heap' :
          IF s \in DOMAIN heap
          THEN heap'[s].coldLoad = heap[s].coldLoad
          ELSE \E p \in Procs :
                 /\ At(p, "start", "attach_ok")
                 /\ procs'[p].sid = s
                 /\ heap'[s].coldLoad = procs[p].coldLoad]_vars

C10_Witness ==
  \E t \in Tabs :
    /\ tabStatus[t] = "loading"
    /\ sessions[t] # NoSession
    /\ heap[sessions[t]].coldLoad
    /\ attached[t]

\* ---- properties of the network aggregator -------------------------------

\* The session of the measured tab, and the request record of an id in it.
Measured == heap[sessions[1]]
RequestOf(session, id) == session.requestMap[RequestIndex(session, id)]

\* The request of that id has received Network.loadingFinished.
HasFinished(session, id) ==
  HasRequest(session, id) /\ RequestOf(session, id).durationMs # None

\* One event of each kind is delivered for the id.
ResponseStep(id) ==
  \E cached \in BOOLEAN, mime \in MimeTypes, st \in Statuses :
    ResponseReceived(1, id, cached, mime, st)
FinishedStep(id) ==
  \E bytes \in ByteCounts, ts \in TimeStamps, now \in Times :
    LoadingFinished(1, id, bytes, ts, now)
FailedStep(id) ==
  \E e \in ErrorTexts, ty \in FailureTypes : LoadingFailed(1, id, e, ty)

\* C11: a second Network.loadingFinished for a request identifier changes
\* neither the session's transferredBytes nor the rollup of the request's
\* domain (the first one has counted the request).
C11_FinishedTwiceCountsOnce ==
  [][\A id \in ReqIds :
       (HasSession(1) /\ HasFinished(Measured, id) /\ FinishedStep(id))
       => /\ heap'[sessions[1]].transferredBytes = Measured.transferredBytes
          /\ heap'[sessions[1]].domainMap = Measured.domainMap]_vars

\* C12: once a request identifier has received its finished event, a later
\* response-received, request-finished or request-failed event for it changes
\* neither the request record nor the totals of the session.
C12_TerminalIsFinal ==
  [][\A id \in ReqIds :
       (/\ HasSession(1) /\ HasFinished(Measured, id)
        /\ (ResponseStep(id) \/ FinishedStep(id) \/ FailedStep(id)))
       => heap'[sessions[1]] = Measured]_vars

\* C13: a response-received, request-finished or request-failed event whose
\* request identifier is not in the session's request map changes nothing:
\* counters, failures, domain map and request map stay as they are.
C13_UnknownIdIsNoOp ==
  [][\A id \in ReqIds :
       (/\ HasSession(1) /\ ~HasRequest(Measured, id)
        /\ (ResponseStep(id) \/ FinishedStep(id) \/ FailedStep(id)))
       => UNCHANGED vars]_vars

\* A session that has counted a request and bytes while another identifier is
\* unknown to it, with the link up (so events for that identifier can arrive).
C13_Witness ==
  /\ HasSession(1) /\ attached[1]
  /\ Measured.requestsTotal > 0
  /\ Measured.transferredBytes > 0
  /\ \E id \in ReqIds : ~HasRequest(Measured, id)

\* C14: the cacheHitRate of every stop result is null when requestsTotal is 0
\* and otherwise is cacheHits / requestsTotal with 0 <= cacheHits <=
\* requestsTotal.
C14_CacheHitRateInUnitInterval ==
  \A p \in Procs :
    procs[p].networkData # None =>
      LET nd == procs[p].networkData[1]
      IN IF nd.requestsTotal = 0 THEN nd.cacheHitRate = None
         ELSE /\ nd.cacheHitRate # None
              /\ nd.cacheHitRate[1].den = nd.requestsTotal
              /\ 0 <= nd.cacheHitRate[1].num
              /\ nd.cacheHitRate[1].num <= nd.cacheHitRate[1].den

\* The sum of the requests fields of a list of rollups.
SumRequests(list) ==
  LET f[i \in 0..Len(list)] == IF i = 0 THEN 0 ELSE f[i - 1] + list[i].requests
  IN f[Len(list)]

\* C17: Network.requestWillBeSent counts the request in requestsTotal and
\* leaves transferredBytes and every domain rollup as they are; when stop
\* builds the network data, requestsTotal is the session's counter, and byType
\* and slowest hold the requests with a finished event and no other, and
\* byDomain the rollups the finished events have built.
C17_UnfinishedRequest ==
  [][/\ \A id \in ReqIds :
          (/\ HasSession(1)
           /\ \E url \in Urls, rtype \in ResourceTypes, ts \in TimeStamps,
                 now \in Times : RequestWillBeSent(1, id, url, rtype, ts, now))
          => /\ heap'[sessions[1]].requestsTotal = Measured.requestsTotal + 1
             /\ heap'[sessions[1]].transferredBytes = Measured.transferredBytes
             /\ heap'[sessions[1]].domainMap = Measured.domainMap
             /\ ~HasFinished(heap'[sessions[1]], id)
     /\ GetTabReturns(1)
          => LET session == heap[procs[1].sid]
                 nd == procs'[1].networkData[1]
                 finished == {i \in 1..Len(session.requestMap) :
                                session.requestMap[i].durationMs # None}
             IN /\ nd.requestsTotal = session.requestsTotal
                /\ nd.requestsTotal >= Len(session.requestMap)
                /\ SumRequests(nd.byType) = Cardinality(finished)
                /\ Len(nd.slowest) =
                     IF Cardinality(finished) < SlowestCount
                     THEN Cardinality(finished) ELSE SlowestCount
                /\ \A k \in 1..Len(nd.slowest) : nd.slowest[k].durationMs # None
                /\ Len(nd.byDomain) = Len(session.domainMap)
                /\ \A i \in 1..Len(session.domainMap) :
                     \E k \in 1..Len(nd.byDomain) :
                       /\ nd.byDomain[k].domain = session.domainMap[i].domain
                       /\ nd.byDomain[k].bytes = session.domainMap[i].bytes]_vars

\* A stop has returned the data of a session with two requests of which one
\* finished: the other is counted and appears in neither byType nor slowest.
C17_Witness ==
  /\ procs[1].op = "stop" /\ procs[1].result = "ok"
  /\ procs[1].networkData # None
  /\ procs[1].networkData[1].requestsTotal = 2
  /\ Len(procs[1].networkData[1].slowest) = 1
  /\ SumRequests(procs[1].networkData[1].byType) = 1

\* ---- properties of the event routing and of the trace buffer ------------

\* C16: a link event processed while its tab has no registered session
\* changes nothing and creates no session; one processed while a session is
\* registered is applied to that session object and to nothing else, whatever
\* start or stop call is in flight.
C16_EventRouting ==
  [][\A t \in Tabs, len \in 1..MaxChunkLen :
       TraceData(t, len) =>
         IF ~HasSession(t)
         THEN UNCHANGED vars
         ELSE /\ UNCHANGED <<sessions, attached, tracing, tabAlive, tabStatus, procs, popup, storage>>
              /\ DOMAIN heap' = DOMAIN heap
              /\ \A s \in DOMAIN heap : s # sessions[t] => heap'[s] = heap[s]
              /\ heap[sessions[t]].traceEnabled =>
                   /\ heap'[sessions[t]].traceChunks =
                        Append(heap[sessions[t]].traceChunks, len)
                   /\ heap'[sessions[t]].traceSize =
                        heap[sessions[t]].traceSize + len]_vars

\* The browser is tracing on a link whose tab has no registered session (the
\* session was removed while the link stayed up), so the next fragment is
\* processed with no session.
C16_Witness ==
  \E t \in Tabs : tracing[t] # "off" /\ ~HasSession(t)

\* The sum of a list of fragment sizes.
SumSizes(chunks) ==
  LET f[i \in 0..Len(chunks)] == IF i = 0 THEN 0 ELSE f[i - 1] + chunks[i]
  IN f[Len(chunks)]

\* The trace info a stop is to build from a buffer.
TraceInfoOf(chunks) ==
  IF Len(chunks) = 0 THEN [captured |-> FALSE, sizeBytes |-> 0]
  ELSE [captured |-> TRUE, sizeBytes |-> SumSizes(chunks)]

\* The stop of call 1 decides about Tracing.end, and its teardown begins.
TraceDecision(mustWait) ==
  /\ StopObsReturns(1)
     => IF heap[procs[1].sid].traceEnabled /\ Len(heap[procs[1].sid].traceChunks) = 0
        THEN procs'[1].pc = "trace_end" /\ UNCHANGED <<attached, tracing>>
        ELSE procs'[1].pc = "detach"
  /\ (At(1, "stop", "trace_end") /\ Steps(1))
     => \/ procs'[1].pc = "grace"
        \/ ~mustWait /\ TraceEndFails(1) /\ procs'[1].pc = "detach"
  /\ (At(1, "stop", "grace") /\ Steps(1)) => procs'[1].pc = "detach"
  /\ (procs[1].op = "stop" /\ procs[1].pc # "detach" /\ procs'[1].pc = "detach")
     => procs'[1].traceInfo = TraceInfoOf(heap[procs[1].sid].traceChunks)
  /\ (procs[1].op = "stop" /\ procs[1].pc \in {"detach", "get_tab"})
     => procs'[1].traceInfo = procs[1].traceInfo

\* C18 as stated: with tracing enabled and no fragment when stop runs, stop
\* requests trace end and always waits the grace period; the trace info is
\* captured = false for an empty buffer after the wait and otherwise captured
\* = true with sizeBytes the sum of the fragment sizes.
C18_AlwaysWaits == [][TraceDecision(TRUE)]_vars

\* C18, amended: as above, but the grace period is waited only when the
\* Tracing.end request succeeded; when it fails the teardown begins at once.
C18_TraceEndAndGrace == [][TraceDecision(FALSE)]_vars

\* A stop that found an empty buffer and requested trace end is waiting, and
\* two fragments of different sizes have arrived since.
C18_Witness ==
  /\ procs[1].op = "stop" /\ procs[1].pc = "grace"
  /\ Len(heap[procs[1].sid].traceChunks) = 2
  /\ heap[procs[1].sid].traceChunks[1] # heap[procs[1].sid].traceChunks[2]

C15_OtherTargetUntouched ==
  [][/\ sessions'[2] = sessions[2]
     /\ sessions[2] # NoSession => heap'[sessions[2]] = heap[sessions[2]]
     /\ attached'[2] = attached[2]
     /\ tracing'[2] = tracing[2]]_vars

\* Tab 1 has taken network events and its stop has returned them (its session
\* is gone from the store) while tab 2 is still measured, its session as it
\* was.
C15_Witness ==
  /\ procs[1].op = "stop" /\ procs[1].result = "ok"
  /\ procs[1].networkData[1].transferredBytes > 0
  /\ procs[1].networkData[1].failures # <<>>
  /\ ~HasSession(1)
  /\ HasSession(2) /\ attached[2]
  /\ heap[sessions[2]] = BusySession

\* ---- properties of the insights -----------------------------------------

\* The rule table: condition, severity and finding of each row, in order.
RuleTable(report) ==
  LET t == report.timings
      n == report.network
      Over(x, limit) == x # None /\ x[1] > limit
      Within(x, low, high) == x # None /\ x[1] > low /\ x[1] <= high
      total == SumBytes(n.byDomain[1])
      third == SumBytes(SelectSeq(n.byDomain[1], IsThirdParty))
  IN << <<Over(t.lcp, 4000), "poor", "lcp-poor">>,
        <<Within(t.lcp, 2500, 4000), "needs", "lcp-needs">>,
        <<Over(t.inp, 200), "poor", "inp">>,
        <<Over(report.longTasks.totalMs, 200), "poor", "longTasks">>,
        <<Over(t.cls, 250), "poor", "cls">>,
        <<Within(t.cls, 100, 250), "needs", "cls">>,
        <<Over(t.ttfb, 800), "needs", "ttfb">>,
        <<Over(n.transferredBytes, 2 * 1024 * 1024), "poor", "bytes">>,
        <<Over(n.requestsTotal, 150), "poor", "requests">>,
        <<n.byDomain # None /\ total > 0 /\ 100 * third > 30 * total,
          "needs", "thirdParty">>,
        <<Over(n.requestsTotal, 5) /\ n.cacheHitRate # None
            /\ 100 * n.cacheHitRate[1].num < 30 * n.cacheHitRate[1].den,
          "needs", "cache">>,
        <<n.failures # None /\ Len(n.failures[1]) > 0, "poor", "failures">> >>

\* The findings of the rows whose condition holds, in table order.
Fired(report) ==
  LET table == RuleTable(report)
      f[i \in 0..Len(table)] ==
        IF i = 0 THEN <<>>
        ELSE IF table[i][1]
             THEN Append(f[i - 1], Finding(table[i][2], table[i][3]))
             ELSE f[i - 1]
  IN f[Len(table)]

IsRuleFinding(finding) == finding.cls # "good"

\* C20: the findings generateInsights emits for a report (apart from the
\* closing "good" finding of popup.js) are exactly the rows of the rule table
\* whose condition holds, with the row's severity, in table order; report.js
\* emits the same rows as strings.  A null metric fires no row.
C20_InsightsFollowTable ==
  /\ popup.insights # None
       => SelectSeq(popup.insights[1], IsRuleFinding) = Fired(popup.report[1])
  /\ popup.lines # None
       => popup.lines[1] =
            [i \in 1..Len(Fired(popup.report[1])) |->
               InsightLine(Fired(popup.report[1])[i])]

\* Both generators have run on a report in which several rows fire at their
\* lower severity and one metric is null.
C20_Witness ==
  /\ popup.insights # None /\ popup.lines # None
  /\ popup.report[1].timings.lcp = Some(4000)
  /\ popup.report[1].timings.cls = Some(250)
  /\ popup.report[1].timings.inp = None
  /\ popup.report[1].timings.ttfb = Some(801)
  /\ Len(popup.insights[1]) = 3

\* C30 (as stated): once a session exists, no step changes its options
\* coldLoad and traceEnabled.
C30_OptionsImmutable ==
  [][\A s \in DOMAIN heap \cap DOMAIN heap' :
       /\ heap'[s].coldLoad = heap[s].coldLoad
       /\ heap'[s].traceEnabled = heap[s].traceEnabled]_vars

\* C30 (amended): coldLoad never changes; traceEnabled changes only from true
\* to false, and only in the step of the session's own start in which
\* Tracing.start fails.
C30_OnlyTraceFallbackChangesOptions ==
  [][\A s \in DOMAIN heap \cap DOMAIN heap' :
       /\ heap'[s].coldLoad = heap[s].coldLoad
       /\ heap'[s].traceEnabled # heap[s].traceEnabled
            => /\ heap[s].traceEnabled /\ ~heap'[s].traceEnabled
               /\ \E p \in Procs :
                    /\ At(p, "start", "trace_start") /\ procs[p].sid = s
                    /\ procs'[p].pc # "trace_start"]_vars

\* A cold-load start asked for a trace, Tracing.start failed, and the start
\* went on with a session whose traceEnabled is now false.
C30_Witness ==
  \E p \in Procs :
    /\ procs[p].op = "start" /\ procs[p].traceEnabled /\ procs[p].coldLoad
    /\ procs[p].pc \notin {"attach_ok", "attach_failed", "enable", "trace_start"}
    /\ procs[p].sid \in DOMAIN heap
    /\ ~heap[procs[p].sid].traceEnabled
    /\ heap[procs[p].sid].coldLoad

\* The tab is not Idle: a session is registered, or a start or a stop for it
\* is in flight.
NotIdle(t) ==
  \/ HasSession(t)
  \/ \E q \in Procs :
       /\ procs[q].tab = t /\ procs[q].op \in {"start", "stop"}
       /\ procs[q].pc # "done"

\* C27: a start for a tab that is not Idle (registered, or with a start or a
\* stop in flight) ends at once with AlreadyActive, and a registered session
\* is never replaced by the session of another start.
C27_StartWhileBusyIsAlreadyActive ==
  [][/\ \A p \in Procs :
          (Calls(p, "start") /\ NotIdle(procs'[p].tab)) =>
            /\ procs'[p].pc = "done"
            /\ procs'[p].result = "AlreadyActive"
     /\ \A t \in Tabs :
          (sessions[t] # NoSession /\ sessions'[t] # NoSession) =>
            sessions'[t] = sessions[t]]_vars

\* C28: a stop that found its session registered reaches its teardown with
\* the link released, and returns its result without an error, having issued
\* the detach once and deleted the key once, with the session it stopped no
\* longer registered; no fragment and no event is needed for that (the timer
\* after Tracing.end is the only wait).
C28_StopCompletes ==
  \A p \in Procs : \A s \in Sids :
    /\ (At(p, "stop", "get_metrics") /\ procs[p].sid = s)
         ~> (At(p, "stop", "detach") /\ ~attached[procs[p].tab])
    /\ (At(p, "stop", "get_metrics") /\ procs[p].sid = s)
         ~> /\ At(p, "stop", "done") /\ procs[p].result = "ok"
            /\ procs[p].detaches = 1 /\ procs[p].removes = 1
            /\ sessions[procs[p].tab] # s

\* A stop of a tracing session has left its tracing block with no fragment
\* collected: it has released the link and goes on without a trace.
C28_Witness ==
  \E p \in Procs :
    /\ At(p, "stop", "detach") /\ procs[p].detaches = 1
    /\ procs[p].sid \in DOMAIN heap
    /\ heap[procs[p].sid].traceEnabled
    /\ heap[procs[p].sid].traceChunks = <<>>
    /\ ~procs[p].traceInfo.captured
    /\ ~attached[procs[p].tab]

\* C29: a START for an active tab that shows a protected page (chrome://,
\* chrome-extension:// or the Web Store prefix) ends at once with an error;
\* the link of no tab, the store and every session stay as they were.
C29_ProtectedPageRefused ==
  [][\A p \in Procs, tab \in ActiveTabs, c \in BOOLEAN, tr \in BOOLEAN,
        ok \in BOOLEAN :
       (/\ tab # None
        /\ IsProtected(tab[1].url)
        /\ StartMessage(p, tab, c, tr, ok)) =>
         /\ procs'[p].pc = "done"
         /\ procs'[p].result = "Protected"
         /\ attached' = attached
         /\ sessions' = sessions
         /\ heap' = heap
         /\ tracing' = tracing]_vars

\* A START was refused for a protected page while the tab has a registered
\* session and the link.
C29_Witness ==
  \E p \in Procs :
    /\ At(p, "start", "done") /\ procs[p].result = "Protected"
    /\ HasSession(procs[p].tab) /\ attached[procs[p].tab]

\* The timestamps of a history, in its order.
Newer(history) ==
  \A i \in 1..Len(history) : \A j \in 1..Len(history) :
    i < j => history[i].meta.timestamp > history[j].meta.timestamp

\* C25: every history holds at most 10 reports, newest first; the step of a
\* save that writes the store puts the saved report at index 0 of the history
\* of its origin, keeps the earlier entries in their order behind it and drops
\* what lies beyond the tenth; every other history, and every history in any
\* other step, is unchanged.
C25_HistoryCappedNewestFirst ==
  [][\A o \in Origins :
       LET old == HistoryOf(storage.local, KeyOf(o))
           new == HistoryOf(storage'.local, KeyOf(o))
           writes == /\ storage.saving # None
                     /\ storage.saving[1].pc = "get"
                     /\ storage.saving[1].report.meta.origin = o
       IN /\ Len(new) <= 10
          /\ Newer(new)
          /\ writes =>
               /\ new[1].meta = storage.saving[1].report.meta
               /\ new[1].trace.captured = storage.saving[1].report.trace.captured
               /\ Len(new) = IF Len(old) < 10 THEN Len(old) + 1 ELSE 10
               /\ \A i \in 2..Len(new) : new[i] = old[i - 1]
          /\ ~writes => new = old]_vars

\* The eleventh report of one origin has been saved: the first one is gone,
\* the history of the other origin still holds its one report.
C25_Witness ==
  /\ storage.saving = None
  /\ Len(loadHistory("https://a.com")) = 10
  /\ loadHistory("https://a.com")[1].meta.timestamp = 12
  /\ loadHistory("https://a.com")[10].meta.timestamp = 3
  /\ Len(loadHistory("https://b.net")) = 1
  /\ loadHistory("https://b.net")[1].meta.timestamp = 2

\* C22: for a report with all timings null, long-task total 0 and a network
\* section of zero requests (no bytes, no domains, no failures, no cache hit
\* rate) generateInsights gives exactly one finding, the "good" one, in
\* popup.js and in report.js.
C22_IdleReportIsGood ==
  popup.report = Some(IdleReport) =>
    /\ popup.insights # None => popup.insights[1] = <<Finding("good", "good")>>
    /\ popup.lines # None =>
         popup.lines[1] = <<InsightLine(Finding("good", "good"))>>

\* The place of the request of that URL in requestMap (every resource of the
\* page has its own URL).
PlaceOfUrl(requestMap, url) ==
  CHOOSE i \in 1..Len(requestMap) : requestMap[i].url = url

\* C23: in the network data a stop returns, byDomain holds the domain rollups
\* of the session by descending bytes; slowest holds min(10, number of finished
\* requests) finished requests by descending duration, none of the requests
\* left out being longer than one that is in; among equal bytes or durations,
\* and between an entry and a request left out, insertion order decides.
C23_SortContracts ==
  [][\A p \in Procs :
       (At(p, "stop", "get_tab") /\ procs'[p].pc = "done") =>
         LET session == heap[procs[p].sid]
             nd == procs'[p].networkData[1]
             finished == {i \in 1..Len(session.requestMap) :
                            session.requestMap[i].durationMs # None}
             dplace(i) == PlaceOfDomain(session.domainMap, nd.byDomain[i].domain)
             rplace(i) == PlaceOfUrl(session.requestMap, nd.slowest[i].url)
             kept == {rplace(i) : i \in 1..Len(nd.slowest)}
         IN /\ Len(nd.byDomain) = Len(session.domainMap)
            /\ \A i \in 1..Len(nd.byDomain) :
                 /\ dplace(i) # 0
                 /\ nd.byDomain[i].bytes = session.domainMap[dplace(i)].bytes
            /\ \A i \in 1..Len(nd.byDomain) : \A j \in 1..Len(nd.byDomain) :
                 i < j =>
                   \/ nd.byDomain[i].bytes > nd.byDomain[j].bytes
                   \/ /\ nd.byDomain[i].bytes = nd.byDomain[j].bytes
                      /\ dplace(i) < dplace(j)
            /\ Len(nd.slowest) = IF Cardinality(finished) < 10
                                 THEN Cardinality(finished) ELSE 10
            /\ kept \subseteq finished
            /\ \A i \in 1..Len(nd.slowest) :
                 nd.slowest[i].durationMs = session.requestMap[rplace(i)].durationMs
            /\ \A i \in 1..Len(nd.slowest) : \A j \in 1..Len(nd.slowest) :
                 i < j =>
                   \/ nd.slowest[i].durationMs[1] > nd.slowest[j].durationMs[1]
                   \/ /\ nd.slowest[i].durationMs[1] = nd.slowest[j].durationMs[1]
                      /\ rplace(i) < rplace(j)
            /\ \A i \in 1..Len(nd.slowest) : \A r \in finished \ kept :
                 \/ nd.slowest[i].durationMs[1] > session.requestMap[r].durationMs[1]
                 \/ /\ nd.slowest[i].durationMs[1] = session.requestMap[r].durationMs[1]
                    /\ rplace(i) < r]_vars

\* A stop has returned the network data of a page with eleven finished
\* requests, some as long as others: ten are listed, a long one that came
\* late is in, and two domains have the same bytes.
C23_Witness ==
  \E p \in Procs :
    /\ At(p, "stop", "done") /\ procs[p].networkData # None
    /\ LET nd == procs[p].networkData[1]
       IN /\ nd.requestsTotal = 11
          /\ Len(nd.slowest) = 10
          /\ nd.slowest[1].url = "https://b.net/2"
          /\ nd.slowest[2].url = "https://example.com/6"
          /\ nd.slowest[3].url = "https://b.net/11"
          /\ nd.slowest[10].url = "https://example.com/9"
          /\ Len(nd.byDomain) = 3
          /\ nd.byDomain[1].domain = "b.net"
          /\ nd.byDomain[2].domain = "a.com"
          /\ nd.byDomain[3].domain = "example.com"
          /\ nd.byDomain[2].bytes = nd.byDomain[3].bytes

\* The run of E2E-1: one request, on example.com, no failure, and page metrics
\* lcp = 5000, cls = 0.3, ttfb = 900.
SlowPageRun(report) ==
  /\ report.timings.lcp = Some(5000)
  /\ report.timings.cls = Some(300)
  /\ report.timings.ttfb = Some(900)
  /\ report.network.requestsTotal = Some(1)
  /\ report.network.failures = Some(<<>>)
  /\ Len(report.network.byDomain[1]) = 1
  /\ report.network.byDomain[1][1].domain = "example.com"
  /\ report.network.byDomain[1][1].bytes = report.network.transferredBytes[1]

\* The findings of the four rules the run is about, in the order of the list.
IsSlowPageFinding(finding) ==
  finding.text \in {"lcp-poor", "lcp-needs", "cls", "ttfb", "bytes"}

\* C21 (as stated): with 2,000,000 bytes transferred the report of that run
\* has no cacheHitRate, and its insights hold, in this order, LCP poor, CLS
\* poor, TTFB needs-improvement and heavy-page poor.
C21_SlowPageWithHeavyFinding ==
  (/\ popup.report # None
   /\ SlowPageRun(popup.report[1])
   /\ popup.report[1].network.transferredBytes = Some(2000000)) =>
     /\ popup.report[1].network.cacheHitRate = None
     /\ SelectSeq(popup.insights[1], IsSlowPageFinding) =
          << Finding("poor", "lcp-poor"), Finding("poor", "cls"),
             Finding("needs", "ttfb"), Finding("poor", "bytes") >>

\* C21 (amended): the report of that run has cacheHitRate 0 (0 hits of 1
\* request); its insights hold LCP poor, CLS poor and TTFB needs-improvement in
\* this order, followed by heavy-page poor exactly when more than 2 MiB
\* (2,097,152 bytes) were transferred, which 2,000,000 bytes are not.
C21_SlowPageFindings ==
  (popup.report # None /\ SlowPageRun(popup.report[1])) =>
     /\ popup.report[1].network.cacheHitRate = Some(Ratio(0, 1))
     /\ SelectSeq(popup.insights[1], IsSlowPageFinding) =
          << Finding("poor", "lcp-poor"), Finding("poor", "cls"),
             Finding("needs", "ttfb") >>
          \o (IF popup.report[1].network.transferredBytes[1] > 2097152
              THEN <<Finding("poor", "bytes")>> ELSE <<>>)

\* The popup holds the report of that run with 2,000,000 bytes transferred.
C21_Witness ==
  /\ popup.report # None
  /\ SlowPageRun(popup.report[1])
  /\ popup.report[1].network.transferredBytes = Some(2000000)
  /\ Len(popup.insights[1]) >= 3

\* C24: the network data a stop returns marks a domain third-party exactly
\* when the page host is known (the tab still exists) and differs from the
\* domain; when the host is unknown no domain is marked, and the report built
\* from such data has no third-party finding.
C24_ThirdPartyNeedsPageHost ==
  [][\A p \in Procs :
       /\ (At(p, "stop", "get_tab") /\ procs'[p].pc = "done") =>
            LET byDomain == procs'[p].networkData[1].byDomain
            IN \A i \in 1..Len(byDomain) :
                 byDomain[i].thirdParty =
                   (tabAlive[procs[p].tab] /\ byDomain[i].domain # "a.com")
       /\ (At(p, "stop", "done") /\ procs[p].networkData # None
             /\ popup.report = None /\ popup'.report # None
             /\ \A i \in 1..Len(procs[p].networkData[1].byDomain) :
                  ~procs[p].networkData[1].byDomain[i].thirdParty) =>
            \A i \in 1..Len(popup'.insights[1]) :
              popup'.insights[1][i].text # "thirdParty"]_vars

\* The popup holds a report of a run whose tab was closed before the stop
\* looked up the page host: another host carries 31 % of the bytes, no domain
\* is marked, and there is no third-party finding.
C24_Witness ==
  /\ popup.report # None
  /\ ~tabAlive[1]
  /\ Len(popup.report[1].network.byDomain[1]) = 2
  /\ popup.report[1].network.byDomain[1][2].domain = "b.net"
  /\ popup.report[1].network.byDomain[1][2].bytes = 31
  /\ ~popup.report[1].network.byDomain[1][1].thirdParty
  /\ ~popup.report[1].network.byDomain[1][2].thirdParty
  /\ \A i \in 1..Len(popup.insights[1]) : popup.insights[1][i].text # "thirdParty"

\* C26: the report built from a stop that got no page metrics (pageMetrics is
\* {}) has every timing present and null, long-task count, total and maximum
\* 0, lcpElement null, no clsSources, and a network section with the
\* requestsTotal, transferredBytes, cacheHitRate, failures and byDomain the
\* stop returned.
C26_DegradedReportIsComplete ==
  [][\A p \in Procs :
       (/\ At(p, "stop", "done") /\ procs[p].result = "ok"
        /\ procs[p].pageMetrics = "empty"
        /\ popup.report = None /\ popup'.report # None) =>
         LET report == popup'.report[1]
             nd == procs[p].networkData[1]
         IN /\ report.timings =
                 [ ttfb |-> None, fcp |-> None, lcp |-> None, inp |-> None,
                   cls |-> None, dcl |-> None, load |-> None ]
            /\ report.longTasks =
                 [count |-> Some(0), totalMs |-> Some(0), maxMs |-> Some(0)]
            /\ report.lcpElement = None
            /\ report.clsSources = Some(<<>>)
            /\ report.network.requestsTotal = Some(nd.requestsTotal)
            /\ report.network.transferredBytes = Some(nd.transferredBytes)
            /\ report.network.cacheHitRate = nd.cacheHitRate
            /\ report.network.failures = Some(nd.failures)
            /\ report.network.byDomain = Some(nd.byDomain)
            /\ popup'.insights # None]_vars

\* The popup holds the report of a run without page metrics in which
\* requests were counted.
C26_Witness ==
  /\ popup.report # None
  /\ popup.report[1].timings.lcp = None
  /\ popup.report[1].timings.load = None
  /\ popup.report[1].longTasks.count = Some(0)
  /\ popup.report[1].clsSources = Some(<<>>)
  /\ popup.report[1].network.requestsTotal = Some(2)
  /\ popup.report[1].network.transferredBytes = Some(100)
  /\ popup.report[1].network.cacheHitRate = Some(Ratio(0, 2))

\* The findings of a list about one metric.
IsLcpFinding(finding) == finding.text \in {"lcp-poor", "lcp-needs"}
IsClsFinding(finding) == finding.text = "cls"
IsGoodFinding(finding) == finding.cls = "good"

\* C39: the list popup.js generateInsights builds is never empty; it holds the
\* "good" finding exactly when no row of the rule table fired, and then
\* nothing else; it holds at most one LCP and at most one CLS finding.
C39_InsightsNeverEmpty ==
  popup.insights # None =>
    LET insights == popup.insights[1]
        good == SelectSeq(insights, IsGoodFinding)
    IN /\ Len(insights) >= 1
       /\ (Len(good) > 0) = (Fired(popup.report[1]) = <<>>)
       /\ Len(good) > 0 => insights = <<Finding("good", "good")>>
       /\ Len(SelectSeq(insights, IsLcpFinding)) <= 1
       /\ Len(SelectSeq(insights, IsClsFinding)) <= 1

\* The insights of a report with a poor LCP and a poor CLS have been built:
\* one finding each, and no "good" finding.
C39_Witness ==
  /\ popup.insights # None
  /\ popup.report[1].timings.lcp = Some(4001)
  /\ popup.report[1].timings.cls = Some(251)
  /\ Len(SelectSeq(popup.insights[1], IsLcpFinding)) = 1
  /\ Len(SelectSeq(popup.insights[1], IsClsFinding)) = 1
  /\ SelectSeq(popup.insights[1], IsGoodFinding) = <<>>

\* C32: on the same arguments buildRunReport of popup.js and of report.js
\* give the same timings, longTasks, network (byType and slowest included),
\* lcpElement, clsSources and trace, and the two generateInsights give lists of
\* the same length whose entries come from the same rules in the same order.
C32_PopupMirrorsReportJs ==
  (popup.report # None /\ popup.mirror # None) =>
    /\ popup.report[1].timings = popup.mirror[1].timings
    /\ popup.report[1].longTasks = popup.mirror[1].longTasks
    /\ popup.report[1].network = popup.mirror[1].network
    /\ popup.report[1].lcpElement = popup.mirror[1].lcpElement
    /\ popup.report[1].clsSources = popup.mirror[1].clsSources
    /\ popup.report[1].trace = popup.mirror[1].trace
    /\ Len(popup.insights[1]) = Len(popup.lines[1])
    /\ \A i \in 1..Len(popup.insights[1]) :
         popup.lines[1][i] = InsightLine(popup.insights[1][i])

\* ---- properties of the request map and of the byte totals -----------------

\* The records of a request map that carry the id.
RecordsOf(session, id) ==
  {i \in 1..Len(session.requestMap) : session.requestMap[i].id = id}

\* C31: every Network.requestWillBeSent processed for the registered session
\* adds one to requestsTotal and leaves exactly one record of the request id,
\* holding the fields of this event and no cache flag, status, bytes or
\* duration of an earlier one; the records of the other ids stay as they are;
\* requestsTotal is at least the number of records in every state.
C31_RequestInitiated ==
  /\ [](HasSession(1) => Measured.requestsTotal >= Len(Measured.requestMap))
  /\ [][\A id \in ReqIds, url \in Urls, rtype \in ResourceTypes,
           ts \in TimeStamps, now \in Times :
          (HasSession(1) /\ RequestWillBeSent(1, id, url, rtype, ts, now)) =>
            LET after == heap'[sessions[1]]
            IN /\ after.requestsTotal = Measured.requestsTotal + 1
               /\ Cardinality(RecordsOf(after, id)) = 1
               /\ RequestOf(after, id) =
                    [ id |-> id, url |-> url, domain |-> domainOf(url),
                      type |-> "other", resourceType |-> rtype,
                      startMs |-> now, startTimestamp |-> ts,
                      fromCache |-> None, mimeType |-> NullStr,
                      status |-> None, transferBytes |-> None,
                      durationMs |-> None ]
               /\ Len(after.requestMap) =
                    Len(Measured.requestMap)
                      + (IF HasRequest(Measured, id) THEN 0 ELSE 1)
               /\ \A other \in ReqIds \ {id} :
                    /\ HasRequest(after, other) = HasRequest(Measured, other)
                    /\ HasRequest(Measured, other) =>
                         RequestOf(after, other) = RequestOf(Measured, other)
               /\ after.transferredBytes = Measured.transferredBytes
               /\ after.cacheHits = Measured.cacheHits]_vars

\* A request id that had finished with bytes was initiated again: two events
\* counted, one record, and the record carries no bytes and no duration.
C31_Witness ==
  /\ HasSession(1)
  /\ Measured.requestsTotal = 2
  /\ Len(Measured.requestMap) = 1
  /\ Measured.transferredBytes > 0
  /\ Measured.requestMap[1].transferBytes = None
  /\ Measured.requestMap[1].durationMs = None
  /\ Measured.requestMap[1].fromCache = None

\* C37: in every state of the registered session the bytes of the domain
\* rollups add up to transferredBytes, and no step that keeps the session
\* registered lowers transferredBytes or requestsTotal.
C37_DomainBytesAddUp ==
  /\ [](HasSession(1) =>
          SumBytes(Measured.domainMap) = Measured.transferredBytes)
  /\ [][(HasSession(1) /\ sessions'[1] = sessions[1]) =>
          /\ heap'[sessions[1]].transferredBytes >= Measured.transferredBytes
          /\ heap'[sessions[1]].requestsTotal >= Measured.requestsTotal]_vars

\* Two domains have bytes, and one request has finished twice.
C37_Witness ==
  /\ HasSession(1)
  /\ Len(Measured.domainMap) = 2
  /\ Measured.domainMap[1].bytes > 0
  /\ Measured.domainMap[2].bytes > 0
  /\ SumRequests(Measured.domainMap) > Len(Measured.requestMap)
  /\ Measured.transferredBytes =
       Measured.domainMap[1].bytes + Measured.domainMap[2].bytes

\* C38: in the network data a stop builds, the request counts of byDomain and
\* those of byType each add up to at most requestsTotal, and the bytes of
\* byType add up to transferredBytes.
C38_NetworkDataSums ==
  procs[1].networkData # None =>
    LET nd == procs[1].networkData[1]
    IN /\ SumRequests(nd.byDomain) <= nd.requestsTotal
       /\ SumRequests(nd.byType) <= nd.requestsTotal
       /\ SumBytes(nd.byType) = nd.transferredBytes

\* ---- properties of overlapping calls ---------------------------------------

\* C33: in the step in which a startMeasurement call resolves with success,
\* the session it registered is the session of its tab in the store and the
\* link is attached to the tab.
C33_StartedMeansRegistered ==
  [][\A p \in Procs :
       (procs[p].op = "start" /\ procs[p].result = "none"
        /\ procs'[p].result = "ok") =>
         /\ sessions'[procs[p].tab] = procs[p].sid
         /\ procs[p].sid # NoSession
         /\ attached'[procs[p].tab]]_vars

\* C34: a step of a stop, or of a start whose Network.enable failed, that works
\* on one session of a tab while a different session of the tab is registered
\* neither removes that session from the store nor detaches the link.
C34_OnlyOwnSession ==
  [][\A p \in Procs :
       ( /\ Steps(p)
         /\ \/ procs[p].op = "stop"
            \/ procs[p].op = "start" /\ procs[p].pc \in {"enable", "enable_detach"}
         /\ procs[p].sid # NoSession
         /\ sessions[procs[p].tab] # NoSession
         /\ sessions[procs[p].tab] # procs[p].sid ) =>
         /\ sessions'[procs[p].tab] = sessions[procs[p].tab]
         /\ attached'[procs[p].tab] = attached[procs[p].tab]]_vars

\* C35: of two stopMeasurement calls that work on the same session at most one
\* returns a report, and together they issue the detach of the link once.
C35_OneStopPerSession ==
  \A p \in Procs : \A q \in Procs \ {p} :
    ( /\ procs[p].op = "stop" /\ procs[q].op = "stop"
      /\ procs[p].sid # NoSession /\ procs[p].sid = procs[q].sid ) =>
      /\ ~(procs[p].result = "ok" /\ procs[q].result = "ok")
      /\ procs[p].detaches + procs[q].detaches <= 1

\* C36: the size accumulator of every session is the sum of the lengths of
\* its fragments; and the trace info a stop has built, which carries the
\* fragment list of the session object itself, has sizeBytes equal to the sum
\* of the lengths of that list and captured = true only with a fragment in it.
C36_TraceInfoIsSnapshot ==
  /\ \A s \in DOMAIN heap : heap[s].traceSize = SumSizes(heap[s].traceChunks)
  /\ \A p \in Procs :
       ( /\ procs[p].op = "stop" /\ procs[p].pc \in {"detach", "get_tab"}
         /\ procs[p].traceInfo.captured ) =>
         /\ Len(heap[procs[p].sid].traceChunks) >= 1
         /\ procs[p].traceInfo.sizeBytes = SumSizes(heap[procs[p].sid].traceChunks)

\* C40: when every saveReport call has resolved, the stored history of the
\* origin holds the report of each call (there are fewer than MAX_HISTORY of
\* them), newest first, also when calls overlapped.
C40_NoSaveLost ==
  storage.saving = <<>> =>
    /\ Len(loadHistory("https://a.com")) = storage.clock
    /\ Newer(loadHistory("https://a.com"))

====
